---- MODULE Spec2Model ----
(***************************************************************************)
(* coffee-companion-backend: registration, device-bound token validation   *)
(* and the coffee record store, as a state machine over the persistent     *)
(* tables.  Every request handler is cut at its awaits: one action per     *)
(* storage or mail call, so that concurrent requests interleave exactly    *)
(* where the event loop lets them.                                         *)
(***************************************************************************)
EXTENDS Naturals, Sequences, FiniteSets, TLC

(* ------------------------------ bounds -------------------------------- *)

\* request slots that may be in flight at the same time
NSlots == 2
\* requests per behaviour when requests overlap
MaxReqs == 3
\* requests per behaviour when requests run one after the other
MaxSeqReqs == 4
\* requests per behaviour of the coffee record store
MaxCoffeeReqs == 3
\* requests per run of the credential checks
MaxAuthReqs == 3
\* requests per run of the collision loop
MaxLoopReqs == 2
\* requests per run of the guarded coffee routes
MaxGuardReqs == 3
\* requests per run of the admin gate
MaxGateReqs == 2
\* requests per run of whitelist administration
MaxAdminReqs == 3
\* requests per run of the status listing
MaxStatusReqs == 4
\* requests per run with failing storage calls
MaxFaultReqs == 3
\* lexemes in the text of a provider response
MaxTextLen == 6
MaxProfileReqs == 4
MaxProxyReqs == 2

Slots == 1..NSlots

(* --------------------------- strings ---------------------------------- *)
\* An email is a sequence of one-character strings; tokens, device ids and
\* payloads are opaque strings.

LowerLetters ==
    {"a","b","c","d","e","f","g","h","i","j","k","l","m",
     "n","o","p","q","r","s","t","u","v","w","x","y","z"}
UpperLetters ==
    {"A","B","C","D","E","F","G","H","I","J","K","L","M",
     "N","O","P","Q","R","S","T","U","V","W","X","Y","Z"}
Digits == {"0","1","2","3","4","5","6","7","8","9"}

UpperSeq ==
    <<"A","B","C","D","E","F","G","H","I","J","K","L","M",
      "N","O","P","Q","R","S","T","U","V","W","X","Y","Z">>
LowerSeq ==
    <<"a","b","c","d","e","f","g","h","i","j","k","l","m",
      "n","o","p","q","r","s","t","u","v","w","x","y","z">>

\* String.prototype.toLowerCase on one character
LowerChar(c) ==
    IF c \in UpperLetters
    THEN LowerSeq[CHOOSE i \in 1..26 : UpperSeq[i] = c]
    ELSE c

ToLowerCase(s) == [i \in 1..Len(s) |-> LowerChar(s[i])]

IsSpace(c) == c \in {" ", "\n"}

RECURSIVE TrimStart(_)
TrimStart(s) ==
    IF s # <<>> /\ IsSpace(Head(s)) THEN TrimStart(Tail(s)) ELSE s

RECURSIVE TrimEnd(_)
TrimEnd(s) ==
    IF s # <<>> /\ IsSpace(s[Len(s)])
    THEN TrimEnd(SubSeq(s, 1, Len(s) - 1))
    ELSE s

\* String.prototype.trim
Trim(s) == TrimEnd(TrimStart(s))

\* String.prototype.includes for a one-character needle
Includes(s, c) == \E i \in 1..Len(s) : s[i] = c

\* register: email.toLowerCase().trim()
NormalizedEmail(email) == Trim(ToLowerCase(email))

\* register: !(!email || !email.includes('@'))
ValidEmail(email) == email # <<>> /\ Includes(email, "@")

\* email.split('@')[0]
LocalPart(s) ==
    IF Includes(s, "@")
    THEN SubSeq(s, 1, (CHOOSE i \in 1..Len(s) :
                          s[i] = "@" /\ \A j \in 1..(i - 1) : s[j] # "@") - 1)
    ELSE s

\* the character class [a-zA-Z0-9_]
IsWordChar(c) == c \in LowerLetters \cup UpperLetters \cup Digits \cup {"_"}

UsernameBaseLen == 16
SuffixDigits == 4

Min(a, b) == IF a < b THEN a ELSE b

RECURSIVE Pow10(_)
Pow10(n) == IF n = 0 THEN 1 ELSE 10 * Pow10(n - 1)

\* validate: split('@')[0].replace(/[^a-zA-Z0-9_]/g, '').slice(0, 16)
UsernameBase(email) ==
    LET kept == SelectSeq(LocalPart(email), IsWordChar)
    IN  SubSeq(kept, 1, Min(UsernameBaseLen, Len(kept)))

\* validate: Date.now().toString().slice(-4), the last four decimal digits
TimeSuffix(now) == now % Pow10(SuffixDigits)

\* validate: (base || 'user') + '_' + suffix.  The suffix always has four
\* digits, so the pair determines the string and the string the pair.
DeriveUsername(email, now) ==
    LET base == UsernameBase(email)
    IN  <<IF base = <<>> THEN <<"u","s","e","r">> ELSE base, TimeSuffix(now)>>

(* --------------------------- tokens ----------------------------------- *)

\* generateToken's alphabet 'ABCDEFGHJKLMNPQRSTUVWXYZ23456789'
TokenChars ==
    <<"A","B","C","D","E","F","G","H","J","K","L","M","N","P","Q","R",
      "S","T","U","V","W","X","Y","Z","2","3","4","5","6","7","8","9">>

\* generateToken: for (let i = 0; i < 6; i++)
TokenLen == 6

\* randomBytes(1)[0] is a byte
ByteMax == 255

\* the mutant of TokenIndex: the byte itself is the index
TokenIndexRaw(byte) == byte

\* randomBytes(1)[0] % chars.length
TokenIndex(byte) == byte % Len(TokenChars)

\* chars[idx], indices from 0; past the end JavaScript yields undefined,
\* which += appends as the text 'undefined'
CharAt(chars, idx) == IF idx < Len(chars) THEN chars[idx + 1] ELSE "undefined"

\* the character turn i of the loop appends
TokenSymbol(bytes, i) == CharAt(TokenChars, TokenIndex(bytes[i]))

\* the loop of generateToken from turn i on: token += chars[byte % chars.length]
RECURSIVE TokenTail(_, _)
TokenTail(bytes, i) ==
    IF i > TokenLen THEN ""
    ELSE TokenSymbol(bytes, i) \o TokenTail(bytes, i + 1)

\* generateToken: 'BREW-' followed by six characters; bytes is what the six
\* randomBytes(1) calls returned.
GenerateToken(bytes) == "BREW-" \o TokenTail(bytes, 1)

\* register: the collision loop's `attempts < 10`
MaxAttempts == 10

(* --------------------------- inputs ----------------------------------- *)

EmailA     == <<"a","@","x">>
EmailAVar  == <<" ","A","@","x"," ">>
EmailADot  == <<"a",".","@","y">>
EmailB     == <<"b","@","x">>
EmailBVar  == <<"B","@","x"," ">>
EmailBad   == <<"a","b">>

\* what a client may post to register
RawEmails == {EmailA, EmailAVar, EmailADot, EmailB, EmailBad}

\* what the six randomBytes(1) calls may return: 0 and 32 select the same
\* character
RandomByteSeqs == {<<b, 0, 0, 0, 0, 0>> : b \in {0, 1, 32}}

\* Date.now() at account creation, in milliseconds: two instants ten
\* seconds apart and a third one
Clock == {10001, 20001, 10002}

NoToken  == ""
NoDevice == ""
LegacyToken1 == "LEGACY-1"
LegacyToken2 == "LEGACY-2"

Devices == {"dev1", "dev2"}

\* the tokens register may issue
IssuedTokens == {GenerateToken(b) : b \in RandomByteSeqs}

\* tokens a client may present
PresentedTokens == IssuedTokens \cup {LegacyToken1}

\* byte values at the ends of the range
EdgeBytes == {0, ByteMax}

\* inputs of generateToken: every byte value at one turn of the loop, one
\* end of the range at the others
TokenByteSeqs ==
    {[j \in 1..TokenLen |-> IF j = i THEN b ELSE e] :
        i \in 1..TokenLen, b \in 0..ByteMax, e \in EdgeBytes}

\* a well-formed token that register never issued here
UnknownToken == "BREW-ZZZZZZ"

\* credentials as extractAuthCredentials may return them, missing ones and
\* a token nobody was given among them
AuthTokens == {NoToken, UnknownToken, LegacyToken1, GenerateToken(<<0, 0, 0, 0, 0, 0>>)}
AuthDevices == {NoDevice, "dev1", "dev2"}

(* --------------------------- state ------------------------------------ *)

VARIABLES
    env,            \* process.env.ADMIN_PASSWORD, the database type, the API key
    whitelist,      \* table whitelist: rows [id, email, name, website, note]
    registrations,  \* table registrations: rows [email, token, used]
    users,          \* table users: rows [id, username, token, deviceId, logins]
    coffees,        \* table coffees: rows [user, data] in insertion order
    tx,             \* the transaction open on the process-wide handle
    mails,          \* what the mail provider was asked to send, in order
    slot,           \* the requests in flight, by slot
    log             \* the responses sent, in order

vars == <<env, whitelist, registrations, users, coffees, tx, mails, slot, log>>

\* a header, field or environment variable that is not there
Undefined == "<undefined>"

\* users.water_hardness: NULL, or the one value stored
NoHardness == <<>>

NoUser == [id |-> 0, username |-> <<>>, token |-> NoToken,
           deviceId |-> NoDevice, logins |-> 0, waterHardness |-> NoHardness]

\* the user object of a validate response, as far as it is modelled; a
\* response without one carries NoProfile
NoProfile == [deviceId |-> NoDevice, waterHardness |-> NoHardness]

\* the body of an admin request: name, website, note and email.  A key
\* that is not in the body is Undefined; the email, a sequence of
\* characters, is empty when it is not there (!email holds of both)
NoFields == [name |-> Undefined, website |-> Undefined, note |-> Undefined,
             email |-> <<>>]

Idle == [pc |-> "idle", op |-> "", email |-> <<>>, token |-> NoToken,
         dev |-> NoDevice, user |-> NoUser, att |-> 0, cand |-> NoToken,
         body |-> <<>>, k |-> 0, pre |-> "", before |-> <<>>,
         given |-> FALSE, bytes |-> <<>>,
         pw |-> Undefined, id |-> 0, fields |-> NoFields,
         arg |-> <<>>, ret |-> <<>>, thrown |-> "",
         calls |-> 0, provider |-> ""]

\* the secret the deployment configures
AdminSecret == "s3cret"

\* the environment of a deployment: the admin secret and the database type
\* process.env.ANTHROPIC_API_KEY of a deployment that has one
ApiKey == "sk-key"

DeployedEnv == [adminPassword |-> AdminSecret, databaseType |-> "sqlite",
                apiKey |-> ApiKey]

\* the whitelist the administrator filled before this process started
InitialWhitelist ==
    {[id |-> 1, email |-> NormalizedEmail(EmailA), name |-> "", website |-> "",
      note |-> ""],
     [id |-> 2, email |-> NormalizedEmail(EmailADot), name |-> "", website |-> "",
      note |-> ""]}

NoTx == [active |-> FALSE, registrations |-> {}, users |-> {}, coffees |-> <<>>]

\* accounts provisioned before this process started, not yet bound to a
\* device: server.js creates no account itself and binds on first use
LegacyUsers ==
    {[id |-> 1, username |-> <<<<"l","e","g","1">>, 1>>, token |-> LegacyToken1,
      deviceId |-> NoDevice, logins |-> 0, waterHardness |-> NoHardness],
     [id |-> 2, username |-> <<<<"l","e","g","2">>, 2>>, token |-> LegacyToken2,
      deviceId |-> NoDevice, logins |-> 0, waterHardness |-> NoHardness]}

Init ==
    /\ env = DeployedEnv
    /\ whitelist = InitialWhitelist
    /\ registrations = {}
    /\ users = LegacyUsers
    /\ coffees = <<>>
    /\ tx = NoTx
    /\ mails = <<>>
    /\ slot = [p \in Slots |-> Idle]
    /\ log = <<>>

(* --------------------------- storage ---------------------------------- *)

\* SELECT id FROM whitelist WHERE email = ?
WhitelistByEmail(email) == {w \in whitelist : w.email = email}

\* SELECT ... FROM registrations WHERE email = ?
RegistrationsByEmail(email) == {r \in registrations : r.email = email}

\* SELECT ... FROM registrations WHERE token = ?
RegistrationsByToken(token) == {r \in registrations : r.token = token}

\* queries.getUserByToken
UsersByToken(token) == {u \in users : u.token = token}

GetUserByToken(token) ==
    IF UsersByToken(token) = {} THEN NoUser
    ELSE CHOOSE u \in UsersByToken(token) : TRUE

InFlight == {p \in Slots : slot[p].pc # "idle"}

\* a request may start in slot p while fewer than cap were started
CanStart(p, cap) ==
    /\ slot[p].pc = "idle"
    /\ Len(log) + Cardinality(InFlight) < cap

\* where a token stands when a request carrying it arrives
TokenState(token) ==
    IF UsersByToken(token) # {} THEN "account"
    ELSE IF RegistrationsByToken(token) # {} THEN "pending"
    ELSE "none"

\* at, cand and retried record where the handler stood when it answered,
\* the token it had generated or looked up, and whether a candidate of its
\* had collided.
\* error is the code of the answer: "invalid_email" stands for the body
\* error 'Ungueltige E-Mail' (400), "device_mismatch" for 'This token is
\* already bound to another device' (403); the others are the code's text
Response(s, status, error, resent) ==
    [op |-> s.op, email |-> s.email, token |-> s.token, dev |-> s.dev,
     body |-> s.body, given |-> s.given, status |-> status, error |-> error, resent |-> resent,
     pre |-> s.pre, before |-> s.before, coffees |-> <<>>, saved |-> 0,
     at |-> s.pc, cand |-> s.cand, retried |-> s.att > 0,
     pw |-> s.pw, id |-> s.id, fields |-> s.fields, entries |-> {}, newId |-> 0,
     wbefore |-> {}, thrown |-> s.thrown, profile |-> NoProfile,
     arg |-> s.arg, calls |-> s.calls, provider |-> s.provider]

\* res.status(..).json(..): the response leaves and the request is over
Respond(p, s, status, error, resent) ==
    /\ log' = Append(log, Response(s, status, error, resent))
    /\ slot' = [slot EXCEPT ![p] = Idle]

\* res.json(..) of the coffee routes, which carry a payload
RespondWith(p, s, list, saved) ==
    /\ log' = Append(log, [Response(s, 200, "", FALSE) EXCEPT
                             !.coffees = list, !.saved = saved])
    /\ slot' = [slot EXCEPT ![p] = Idle]

\* deviceId: user.device_id || deviceId, waterHardness:
\* user.water_hardness || null, of the user row the handler holds
Profile(user, deviceId) ==
    [deviceId |-> IF user.deviceId = NoDevice THEN deviceId ELSE user.deviceId,
     waterHardness |-> IF user.waterHardness \in {NoHardness, <<0>>}
                       THEN NoHardness ELSE user.waterHardness]

\* res.json({ success: true, valid: true, user: {..} })
RespondProfile(p, s, profile) ==
    /\ log' = Append(log, [Response(s, 200, "", FALSE) EXCEPT !.profile = profile])
    /\ slot' = [slot EXCEPT ![p] = Idle]

\* the messages of the errors the handlers may catch: the mail provider's
\* answer, a violated constraint, a property read of no row, a transaction
\* statement out of place, and a storage call that fails
MailError       == "Resend error: provider message"
ConstraintError == "UNIQUE constraint failed"
TypeError       == "Cannot read properties of undefined"
BeginError      == "cannot start a transaction within a transaction"
CommitError     == "cannot commit - no transaction is active"
StorageError    == "database is unavailable"

\* the mutant of Catch: the answer carries the message of the error
CatchLeaks(p, s, err) ==
    Respond(p, [s EXCEPT !.thrown = err], 500, err, FALSE)

\* catch (error) { console.error(.., error.message);
\* res.status(500).json({ success: false, error: 'Server error' }) };
\* thrown keeps the message of the error that was caught
Catch(p, s, err) ==
    Respond(p, [s EXCEPT !.thrown = err], 500, "Server error", FALSE)

Goto(p, s) ==
    /\ slot' = [slot EXCEPT ![p] = s]
    /\ UNCHANGED log

(* --------------------------- register --------------------------------- *)

\* the answer of the mail provider: res.ok, or not (or fetch itself throws)
MailOutcomes == {"ok", "failed"}

\* sendTokenMail: mails holds the mails the provider accepted, in order
SendTokenMail(email, token, outcome) ==
    mails' = IF outcome = "ok"
             THEN Append(mails, [to |-> email, token |-> token])
             ELSE mails

\* POST /api/auth/register arrives: the body is read and checked
RegisterStart(p, cap, emails) ==
    /\ CanStart(p, cap)
    /\ \E email \in emails :
         LET s == [Idle EXCEPT !.op = "register", !.email = email,
                     !.pre = IF RegistrationsByEmail(NormalizedEmail(email)) # {}
                             THEN "registered" ELSE "new"]
         IN  IF ValidEmail(email)
             THEN Goto(p, [s EXCEPT !.pc = "r_whitelist"])
             ELSE Respond(p, s, 400, "invalid_email", FALSE)
    /\ UNCHANGED <<env, whitelist, registrations, users, coffees, tx, mails>>

\* the mutant of RegisterWhitelist: the gate lets everybody through
RegisterWhitelistOpen(p) ==
    /\ slot[p].pc = "r_whitelist"
    /\ Goto(p, [slot[p] EXCEPT !.pc = "r_existing"])
    /\ UNCHANGED <<env, whitelist, registrations, users, coffees, tx, mails>>

\* 1. SELECT id FROM whitelist WHERE email = normalizedEmail
RegisterWhitelist(p) ==
    /\ slot[p].pc = "r_whitelist"
    /\ IF WhitelistByEmail(NormalizedEmail(slot[p].email)) # {}
       THEN Goto(p, [slot[p] EXCEPT !.pc = "r_existing"])
       ELSE Respond(p, slot[p], 403, "not_whitelisted", FALSE)
    /\ UNCHANGED <<env, whitelist, registrations, users, coffees, tx, mails>>

\* 2. SELECT token, used FROM registrations WHERE email = normalizedEmail
RegisterExisting(p) ==
    /\ slot[p].pc = "r_existing"
    /\ LET found == RegistrationsByEmail(NormalizedEmail(slot[p].email))
       IN  IF found # {}
           THEN Goto(p, [slot[p] EXCEPT !.pc = "r_resend",
                            !.cand = (CHOOSE r \in found : TRUE).token])
           ELSE Goto(p, [slot[p] EXCEPT !.pc = "r_generate"])
    /\ UNCHANGED <<env, whitelist, registrations, users, coffees, tx, mails>>

\* the mutant of RegisterResend: a fresh token is mailed instead
RegisterResendFresh(p) ==
    /\ slot[p].pc = "r_resend"
    /\ \E bytes \in RandomByteSeqs :
         mails' = Append(mails, [to |-> NormalizedEmail(slot[p].email),
                                 token |-> GenerateToken(bytes)])
    /\ Respond(p, slot[p], 200, "", TRUE)
    /\ UNCHANGED <<env, whitelist, registrations, users, coffees, tx>>

\* sendTokenMail(normalizedEmail, existing.token), then resent: true; a
\* refused send throws into the catch, which answers 500
RegisterResend(p) ==
    /\ slot[p].pc = "r_resend"
    /\ \E outcome \in MailOutcomes :
         /\ SendTokenMail(NormalizedEmail(slot[p].email), slot[p].cand, outcome)
         /\ IF outcome = "ok"
            THEN Respond(p, slot[p], 200, "", TRUE)
            ELSE Catch(p, slot[p], MailError)
    /\ UNCHANGED <<env, whitelist, registrations, users, coffees, tx>>

\* the mutant of RegisterGenerate: the loop goes on for as long as the
\* candidate collides
RegisterGenerateForever(p) ==
    /\ slot[p].pc = "r_generate"
    /\ \E bytes \in RandomByteSeqs :
         LET token == GenerateToken(bytes)
             s     == [slot[p] EXCEPT !.cand = token]
         IN  IF RegistrationsByToken(token) = {}
             THEN Goto(p, [s EXCEPT !.pc = "r_insert"])
             ELSE Goto(p, [s EXCEPT !.att = Min(s.att + 1, MaxAttempts)])
    /\ UNCHANGED <<env, whitelist, registrations, users, coffees, tx, mails>>

\* 3. one turn of the do/while: generateToken(), then the conflict lookup
RegisterGenerate(p) ==
    /\ slot[p].pc = "r_generate"
    /\ \E bytes \in RandomByteSeqs :
         LET token == GenerateToken(bytes)
             s     == [slot[p] EXCEPT !.cand = token]
         IN  IF RegistrationsByToken(token) = {}
             THEN Goto(p, [s EXCEPT !.pc = "r_insert"])
             ELSE IF s.att + 1 < MaxAttempts
                  THEN Goto(p, [s EXCEPT !.att = s.att + 1])
                  ELSE Goto(p, [s EXCEPT !.att = s.att + 1, !.pc = "r_insert"])
    /\ UNCHANGED <<env, whitelist, registrations, users, coffees, tx, mails>>

\* the mutant of RegistrationInsertable: only the email is unique
RegistrationInsertableByEmail(email, token) ==
    RegistrationsByEmail(email) = {}

\* the unique constraints on registrations(email) and registrations(token)
RegistrationInsertable(email, token) ==
    /\ RegistrationsByEmail(email) = {}
    /\ RegistrationsByToken(token) = {}

\* the mutant of RegisterInsert: the row carries the email as it was typed
RegisterInsertRaw(p) ==
    /\ slot[p].pc = "r_insert"
    /\ IF RegistrationInsertable(slot[p].email, slot[p].cand)
       THEN /\ registrations' = registrations \cup
                  {[email |-> slot[p].email, token |-> slot[p].cand, used |-> FALSE]}
            /\ Goto(p, [slot[p] EXCEPT !.pc = "r_mail"])
       ELSE /\ UNCHANGED registrations
            /\ Catch(p, slot[p], ConstraintError)
    /\ UNCHANGED <<env, whitelist, users, coffees, tx, mails>>

\* the mutant of RegisterInsert: a refused insert is passed over
RegisterInsertSilent(p) ==
    /\ slot[p].pc = "r_insert"
    /\ LET email == NormalizedEmail(slot[p].email)
       IN  IF RegistrationInsertable(email, slot[p].cand)
           THEN registrations' = registrations \cup
                      {[email |-> email, token |-> slot[p].cand, used |-> FALSE]}
           ELSE UNCHANGED registrations
    /\ Goto(p, [slot[p] EXCEPT !.pc = "r_mail"])
    /\ UNCHANGED <<env, whitelist, users, coffees, tx, mails>>

\* 4. INSERT INTO registrations (email, token); a constraint violation
\* throws into the catch, which answers 500
RegisterInsert(p) ==
    /\ slot[p].pc = "r_insert"
    /\ LET email == NormalizedEmail(slot[p].email)
       IN  IF RegistrationInsertable(email, slot[p].cand)
           THEN /\ registrations' = registrations \cup
                      {[email |-> email, token |-> slot[p].cand, used |-> FALSE]}
                /\ Goto(p, [slot[p] EXCEPT !.pc = "r_mail"])
           ELSE /\ UNCHANGED registrations
                /\ Catch(p, slot[p], ConstraintError)
    /\ UNCHANGED <<env, whitelist, users, coffees, tx, mails>>

\* the mutant of RegisterMail: a refused send takes the row back
RegisterMailCompensates(p) ==
    /\ slot[p].pc = "r_mail"
    /\ \E outcome \in MailOutcomes :
         /\ SendTokenMail(NormalizedEmail(slot[p].email), slot[p].cand, outcome)
         /\ IF outcome = "ok"
            THEN /\ Respond(p, slot[p], 200, "", FALSE)
                 /\ UNCHANGED registrations
            ELSE /\ Catch(p, slot[p], MailError)
                 /\ registrations' = {r \in registrations : r.token # slot[p].cand}
    /\ UNCHANGED <<env, whitelist, users, coffees, tx>>

\* 5. sendTokenMail(normalizedEmail, token), then resent: false; a refused
\* send throws into the catch, which answers 500, and the row stays
RegisterMail(p) ==
    /\ slot[p].pc = "r_mail"
    /\ \E outcome \in MailOutcomes :
         /\ SendTokenMail(NormalizedEmail(slot[p].email), slot[p].cand, outcome)
         /\ IF outcome = "ok"
            THEN Respond(p, slot[p], 200, "", FALSE)
            ELSE Catch(p, slot[p], MailError)
    /\ UNCHANGED <<env, whitelist, registrations, users, coffees, tx>>

Register(p, cap, emails) ==
    \/ RegisterStart(p, cap, emails)
    \/ RegisterWhitelist(p)
    \/ RegisterExisting(p)
    \/ RegisterResend(p)
    \/ RegisterGenerate(p)
    \/ RegisterInsert(p)
    \/ RegisterMail(p)

(* --------------------------- accounts --------------------------------- *)

\* the mutant of UserInsertable: only the username is unique
UserInsertableByName(username, token) ==
    \A u \in users : u.username # username

\* the unique constraints on users(username) and users(token)
UserInsertable(username, token) ==
    /\ \A u \in users : u.username # username
    /\ UsersByToken(token) = {}

\* queries.createUser(username, token, deviceId, deviceInfo): the row is
\* inserted already bound to the device
CreateUser(username, token, deviceId) ==
    users' = users \cup
        {[id |-> Cardinality(users) + 1, username |-> username,
          token |-> token, deviceId |-> deviceId, logins |-> 0,
          waterHardness |-> NoHardness]}

\* queries.bindDevice(user.id, deviceId, deviceInfo)
BindDevice(id, deviceId) ==
    users' = {IF u.id = id THEN [u EXCEPT !.deviceId = deviceId] ELSE u : u \in users}

\* queries.updateLastLogin(user.id)
UpdateLastLogin(id) ==
    users' = {IF u.id = id THEN [u EXCEPT !.logins = u.logins + 1] ELSE u : u \in users}

\* if (user.device_id) { if (user.device_id !== deviceId) 403 } else bind
DeviceDecision(user, deviceId) ==
    IF user.deviceId # NoDevice
    THEN IF user.deviceId # deviceId THEN "mismatch" ELSE "bound"
    ELSE "unbound"

(* --------------------------- validate (routes/auth.js) ---------------- *)

\* the mutant of ValidateStart: the credentials are not checked
ValidateStartUnchecked(p, cap, tokens, devs) ==
    /\ CanStart(p, cap)
    /\ \E token \in tokens, dev \in devs :
         Goto(p, [Idle EXCEPT !.op = "validate", !.token = token, !.dev = dev,
                              !.pre = TokenState(token), !.pc = "v_user"])
    /\ UNCHANGED <<env, whitelist, registrations, users, coffees, tx, mails>>

\* GET /validate arrives: the credentials are read and checked
ValidateStart(p, cap, tokens, devs) ==
    /\ CanStart(p, cap)
    /\ \E token \in tokens, dev \in devs :
         LET s == [Idle EXCEPT !.op = "validate", !.token = token, !.dev = dev,
                               !.pre = TokenState(token)]
         IN  IF token = NoToken THEN Respond(p, s, 400, "Token required", FALSE)
             ELSE IF dev = NoDevice
                  THEN Respond(p, s, 400, "Device ID required", FALSE)
                  ELSE Goto(p, [s EXCEPT !.pc = "v_user"])
    /\ UNCHANGED <<env, whitelist, registrations, users, coffees, tx, mails>>

\* the device-binding branch taken on the row just read
ValidateBranch(p, s, user) ==
    LET d == DeviceDecision(user, s.dev)
    IN  IF d = "mismatch"
        THEN Respond(p, s, 403, "device_mismatch", FALSE)
        ELSE Goto(p, [s EXCEPT !.user = user,
                               !.pc = IF d = "unbound" THEN "v_bind" ELSE "v_login"])

\* let user = await queries.getUserByToken(token)
ValidateGetUser(p) ==
    /\ slot[p].pc = "v_user"
    /\ LET user == GetUserByToken(slot[p].token)
       IN  IF user = NoUser
           THEN Goto(p, [slot[p] EXCEPT !.pc = "v_registration"])
           ELSE ValidateBranch(p, slot[p], user)
    /\ UNCHANGED <<env, whitelist, registrations, users, coffees, tx, mails>>

\* the mutant of ValidateGetRegistration: a token without a registration
\* goes on to account creation
ValidateGetRegistrationLenient(p) ==
    /\ slot[p].pc = "v_registration"
    /\ LET found == RegistrationsByToken(slot[p].token)
       IN  IF found = {}
           THEN Goto(p, [slot[p] EXCEPT !.pc = "v_create"])
           ELSE Goto(p, [slot[p] EXCEPT !.pc = "v_create",
                            !.email = (CHOOSE r \in found : TRUE).email])
    /\ UNCHANGED <<env, whitelist, registrations, users, coffees, tx, mails>>

\* SELECT * FROM registrations WHERE token = ?
ValidateGetRegistration(p) ==
    /\ slot[p].pc = "v_registration"
    /\ LET found == RegistrationsByToken(slot[p].token)
       IN  IF found = {}
           THEN Respond(p, slot[p], 401, "invalid_token", FALSE)
           ELSE Goto(p, [slot[p] EXCEPT !.pc = "v_create",
                            !.email = (CHOOSE r \in found : TRUE).email])
    /\ UNCHANGED <<env, whitelist, registrations, users, coffees, tx, mails>>

\* the username is derived, then queries.createUser; a constraint violation
\* throws into the catch, which answers 500
ValidateCreateUser(p) ==
    /\ slot[p].pc = "v_create"
    /\ \E now \in Clock :
         LET username == DeriveUsername(slot[p].email, now)
         IN  IF UserInsertable(username, slot[p].token)
             THEN /\ CreateUser(username, slot[p].token, slot[p].dev)
                  /\ Goto(p, [slot[p] EXCEPT !.pc = "v_used"])
             ELSE /\ UNCHANGED users
                  /\ Catch(p, slot[p], ConstraintError)
    /\ UNCHANGED <<env, whitelist, registrations, coffees, tx, mails>>

\* the mutant of ValidateMarkUsed: the registration is left as it is
ValidateMarkUsedSkipped(p) ==
    /\ slot[p].pc = "v_used"
    /\ Goto(p, [slot[p] EXCEPT !.pc = "v_reget"])
    /\ UNCHANGED <<env, whitelist, registrations, users, coffees, tx, mails>>

\* the mutant of ValidateMarkUsed: the registration is consumed by its use
ValidateMarkUsedConsumes(p) ==
    /\ slot[p].pc = "v_used"
    /\ registrations' = {r \in registrations : r.token # slot[p].token}
    /\ Goto(p, [slot[p] EXCEPT !.pc = "v_reget"])
    /\ UNCHANGED <<env, whitelist, users, coffees, tx, mails>>

\* UPDATE registrations SET used = true WHERE token = ?
ValidateMarkUsed(p) ==
    /\ slot[p].pc = "v_used"
    /\ registrations' =
         {IF r.token = slot[p].token THEN [r EXCEPT !.used = TRUE] ELSE r :
            r \in registrations}
    /\ Goto(p, [slot[p] EXCEPT !.pc = "v_reget"])
    /\ UNCHANGED <<env, whitelist, users, coffees, tx, mails>>

\* user = await queries.getUserByToken(token); user.device_id of no row
\* throws into the catch
ValidateReget(p) ==
    /\ slot[p].pc = "v_reget"
    /\ LET user == GetUserByToken(slot[p].token)
       IN  IF user = NoUser
           THEN Catch(p, slot[p], TypeError)
           ELSE ValidateBranch(p, slot[p], user)
    /\ UNCHANGED <<env, whitelist, registrations, users, coffees, tx, mails>>

\* await queries.bindDevice(user.id, deviceId, getDeviceInfo(req))
ValidateBind(p) ==
    /\ slot[p].pc = "v_bind"
    /\ BindDevice(slot[p].user.id, slot[p].dev)
    /\ Goto(p, [slot[p] EXCEPT !.pc = "v_login"])
    /\ UNCHANGED <<env, whitelist, registrations, coffees, tx, mails>>

\* the mutant of ValidateLogin: success is answered, the login is not
\* recorded
ValidateLoginUnrecorded(p) ==
    /\ slot[p].pc = "v_login"
    /\ Respond(p, slot[p], 200, "", FALSE)
    /\ UNCHANGED <<env, whitelist, registrations, users, coffees, tx, mails>>

\* await queries.updateLastLogin(user.id), then success: true
ValidateLogin(p) ==
    /\ slot[p].pc = "v_login"
    /\ UpdateLastLogin(slot[p].user.id)
    /\ RespondProfile(p, slot[p], Profile(slot[p].user, slot[p].dev))
    /\ UNCHANGED <<env, whitelist, registrations, coffees, tx, mails>>

Validate(p, cap, tokens, devs) ==
    \/ ValidateStart(p, cap, tokens, devs)
    \/ ValidateGetUser(p)
    \/ ValidateGetRegistration(p)
    \/ ValidateCreateUser(p)
    \/ ValidateMarkUsed(p)
    \/ ValidateReget(p)
    \/ ValidateBind(p)
    \/ ValidateLogin(p)

(* --------------------------- validate (server.js) --------------------- *)

\* GET /api/auth/validate arrives: the credentials are read and checked
ServerValidateStart(p, cap, tokens, devs) ==
    /\ CanStart(p, cap)
    /\ \E token \in tokens, dev \in devs :
         LET s == [Idle EXCEPT !.op = "server_validate", !.token = token,
                               !.dev = dev, !.pre = TokenState(token)]
         IN  IF token = NoToken THEN Respond(p, s, 400, "Token required", FALSE)
             ELSE IF dev = NoDevice
                  THEN Respond(p, s, 400, "Device ID required", FALSE)
                  ELSE Goto(p, [s EXCEPT !.pc = "sv_user"])
    /\ UNCHANGED <<env, whitelist, registrations, users, coffees, tx, mails>>

\* const user = await queries.getUserByToken(token), then the binding branch
ServerValidateGetUser(p) ==
    /\ slot[p].pc = "sv_user"
    /\ LET user == GetUserByToken(slot[p].token)
           d    == DeviceDecision(user, slot[p].dev)
       IN  IF user = NoUser
           THEN Respond(p, slot[p], 401, "invalid_token", FALSE)
           ELSE IF d = "mismatch"
                THEN Respond(p, slot[p], 403, "device_mismatch", FALSE)
                ELSE Goto(p, [slot[p] EXCEPT !.user = user,
                        !.pc = IF d = "unbound" THEN "sv_bind" ELSE "sv_login"])
    /\ UNCHANGED <<env, whitelist, registrations, users, coffees, tx, mails>>

\* await queries.bindDevice(user.id, deviceId, getDeviceInfo(req))
ServerValidateBind(p) ==
    /\ slot[p].pc = "sv_bind"
    /\ BindDevice(slot[p].user.id, slot[p].dev)
    /\ Goto(p, [slot[p] EXCEPT !.pc = "sv_login"])
    /\ UNCHANGED <<env, whitelist, registrations, coffees, tx, mails>>

\* await queries.updateLastLogin(user.id), then success: true
ServerValidateLogin(p) ==
    /\ slot[p].pc = "sv_login"
    /\ UpdateLastLogin(slot[p].user.id)
    /\ RespondProfile(p, slot[p], Profile(slot[p].user, slot[p].dev))
    /\ UNCHANGED <<env, whitelist, registrations, coffees, tx, mails>>

ServerValidate(p, cap, tokens, devs) ==
    \/ ServerValidateStart(p, cap, tokens, devs)
    \/ ServerValidateGetUser(p)
    \/ ServerValidateBind(p)
    \/ ServerValidateLogin(p)

(* --------------------------- extractAuthCredentials ------------------- *)
\* Header, body and query values are sequences of characters here, so that
\* startsWith and substring are computed on them.

\* a header, or a key of body or query, that is not there
Absent == <<Undefined>>

\* !v of a string or undefined
Falsy(v) == v \in {Absent, <<>>}

\* a || b
JsOr(a, b) == IF Falsy(a) THEN b ELSE a

\* 'Bearer '
BearerPrefix == <<"B","e","a","r","e","r"," ">>

\* String.prototype.startsWith
StartsWith(s, prefix) ==
    /\ Len(s) >= Len(prefix)
    /\ SubSeq(s, 1, Len(prefix)) = prefix

\* String.prototype.substring(n)
Substring(s, n) == SubSeq(s, n + 1, Len(s))

\* authHeader.substring(7)
BearerLen == 7

\* the mutant of TokenOf: body and query come before the header
TokenOfBodyFirst(req) ==
    IF ~Falsy(JsOr(req.bodyToken, req.queryToken))
    THEN JsOr(req.bodyToken, req.queryToken)
    ELSE IF ~Falsy(req.authorization) /\ StartsWith(req.authorization, BearerPrefix)
         THEN Substring(req.authorization, BearerLen)
         ELSE JsOr(req.bodyToken, req.queryToken)

\* if (authHeader && authHeader.startsWith('Bearer ')) token =
\* authHeader.substring(7); else token = req.body?.token || req.query?.token
TokenOf(req) ==
    IF ~Falsy(req.authorization) /\ StartsWith(req.authorization, BearerPrefix)
    THEN Substring(req.authorization, BearerLen)
    ELSE JsOr(req.bodyToken, req.queryToken)

\* req.headers['x-device-id'] || req.body?.deviceId || req.query?.deviceId
DeviceIdOf(req) ==
    JsOr(JsOr(req.xDeviceId, req.bodyDeviceId), req.queryDeviceId)

ExtractAuthCredentials(req) == [token |-> TokenOf(req), deviceId |-> DeviceIdOf(req)]

(* --------------------------- authenticateUser ------------------------- *)

\* where next() continues, by route
HandlerEntry(op) ==
    IF op = "get_coffees" THEN "g_login"
    ELSE IF op = "post_water_hardness" THEN "h_update"
    ELSE IF op \in {"analyze", "server_analyze"} THEN "z_fetch"
    ELSE "c_begin"

\* a request for a guarded route arrives: authenticateUser reads and checks
\* the credentials.  given says whether the body carries coffees at all.
AuthStart(p, cap, ops, tokens, devs, bodies) ==
    /\ CanStart(p, cap)
    /\ \E op \in ops, token \in tokens, dev \in devs, body \in bodies, given \in BOOLEAN :
         /\ op = "get_coffees" => ~given
         /\ ~given => body = <<>>
         /\ LET s == [Idle EXCEPT !.op = op, !.token = token, !.dev = dev,
                        !.body = body, !.given = given,
                        !.pre = TokenState(token),
                        !.before = coffees]
            IN  IF token = NoToken
                THEN Respond(p, s, 400, "Token required", FALSE)
                ELSE IF dev = NoDevice
                     THEN Respond(p, s, 400, "Device ID required", FALSE)
                     ELSE Goto(p, [s EXCEPT !.pc = "a_user"])
    /\ UNCHANGED <<env, whitelist, registrations, users, coffees, tx, mails>>

\* the mutant of AuthGetUser: another device's request goes on to the route
AuthGetUserAnyDevice(p) ==
    /\ slot[p].pc = "a_user"
    /\ LET user == GetUserByToken(slot[p].token)
           d    == DeviceDecision(user, slot[p].dev)
       IN  IF user = NoUser
           THEN Respond(p, slot[p], 401, "invalid_token", FALSE)
           ELSE Goto(p, [slot[p] EXCEPT !.user = user,
                        !.pc = IF d = "unbound" THEN "a_bind"
                               ELSE HandlerEntry(slot[p].op)])
    /\ UNCHANGED <<env, whitelist, registrations, users, coffees, tx, mails>>

\* const user = await queries.getUserByToken(token), then the binding
\* branch; a bound, matching device goes on to the route: req.user = user
AuthGetUser(p) ==
    /\ slot[p].pc = "a_user"
    /\ LET user == GetUserByToken(slot[p].token)
           d    == DeviceDecision(user, slot[p].dev)
       IN  IF user = NoUser
           THEN Respond(p, slot[p], 401, "invalid_token", FALSE)
           ELSE IF d = "mismatch"
                THEN Respond(p, slot[p], 403, "device_mismatch", FALSE)
                ELSE Goto(p, [slot[p] EXCEPT !.user = user,
                        !.pc = IF d = "unbound" THEN "a_bind"
                               ELSE HandlerEntry(slot[p].op)])
    /\ UNCHANGED <<env, whitelist, registrations, users, coffees, tx, mails>>

\* first-time device binding, then next()
AuthBind(p) ==
    /\ slot[p].pc = "a_bind"
    /\ BindDevice(slot[p].user.id, slot[p].dev)
    /\ Goto(p, [slot[p] EXCEPT !.pc = HandlerEntry(slot[p].op)])
    /\ UNCHANGED <<env, whitelist, registrations, coffees, tx, mails>>

AuthenticateUser(p, cap, ops, tokens, devs, bodies) ==
    \/ AuthStart(p, cap, ops, tokens, devs, bodies)
    \/ AuthGetUser(p)
    \/ AuthBind(p)

(* --------------------------- water hardness --------------------------- *)

\* the range of the hardness, in degrees dH
MinHardness == 0
MaxHardness == 50

\* req.body.waterHardness: missing or null, a number, or a text that is
\* no number
NoValue == [kind |-> "missing", n |-> 0]
NumberValue(n) == [kind |-> "number", n |-> n]
TextValue == [kind |-> "text", n |-> 0]

\* isNaN(parseFloat(waterHardness))
IsNaN(value) == value.kind # "number"

\* queries.updateWaterHardness(req.user.id, hardnessValue)
UpdateWaterHardnessQuery(id, hardnessValue) ==
    users' = {IF u.id = id THEN [u EXCEPT !.waterHardness = <<hardnessValue>>] ELSE u :
                u \in users}

\* POST /api/user/water-hardness arrives: authenticateUser reads and checks
\* the credentials
HardnessStart(p, cap, tokens, devs, values) ==
    /\ CanStart(p, cap)
    /\ \E token \in tokens, dev \in devs, value \in values :
         LET s == [Idle EXCEPT !.op = "post_water_hardness", !.token = token,
                               !.dev = dev, !.arg = value]
         IN  IF token = NoToken
             THEN Respond(p, s, 400, "Token required", FALSE)
             ELSE IF dev = NoDevice
                  THEN Respond(p, s, 400, "Device ID required", FALSE)
                  ELSE Goto(p, [s EXCEPT !.pc = "a_user"])
    /\ UNCHANGED <<env, whitelist, registrations, users, coffees, tx, mails>>

\* the handler of POST /api/user/water-hardness: the value is checked and
\* stored
UpdateWaterHardness(p) ==
    /\ slot[p].pc = "h_update"
    /\ LET waterHardness == slot[p].arg
       IN  IF waterHardness.kind = "missing"
           THEN /\ Respond(p, slot[p], 400, "Water hardness value required", FALSE)
                /\ UNCHANGED users
           ELSE IF \/ IsNaN(waterHardness)
                   \/ waterHardness.n < MinHardness
                   \/ waterHardness.n > MaxHardness
           THEN /\ Respond(p, slot[p], 400, "Valid water hardness required", FALSE)
                /\ UNCHANGED users
           ELSE /\ UpdateWaterHardnessQuery(slot[p].user.id, waterHardness.n)
                /\ Respond(p, slot[p], 200, "", FALSE)
    /\ UNCHANGED <<env, whitelist, registrations, coffees, tx, mails>>

WaterHardness(p, cap, tokens, devs, values) ==
    \/ HardnessStart(p, cap, tokens, devs, values)
    \/ AuthGetUser(p)
    \/ AuthBind(p)
    \/ UpdateWaterHardness(p)

(* --------------------------- coffee records --------------------------- *)

\* JSON.stringify of a payload, and JSON.parse of the stored column
JsonStringify(coffee) == <<"json", coffee>>
JsonParse(data) == data[2]

\* queries.getUserCoffees(id): the rows of the account
GetUserCoffees(id) == SelectSeq(coffees, LAMBDA row : row.user = id)

\* { id: c.id, ...JSON.parse(c.data), savedAt: c.created_at }: of two
\* fields of one name the later one stays, so an id of the document
\* replaces the row's and the row's created_at replaces a savedAt of the
\* document
ListItem(row) ==
    [savedAt |-> row.createdAt] @@ JsonParse(row.data) @@ [id |-> row.id]

\* what GET /api/coffees answers for the rows
ParsedCoffees(rows) == [i \in 1..Len(rows) |-> ListItem(rows[i])]

\* the id the store gives the next row of coffees
NextCoffeeId ==
    IF coffees = <<>> THEN 1
    ELSE 1 + (CHOOSE m \in {coffees[i].id : i \in 1..Len(coffees)} :
                \A i \in 1..Len(coffees) : coffees[i].id <= m)

\* the created_at column of a row, set by the store at the insert: later
\* rows are not older
StoreTime(id) == 100 + id

\* queries.saveCoffee(userId, data)
SaveCoffee(userId, data) ==
    coffees' = Append(coffees, [id |-> NextCoffeeId, user |-> userId, data |-> data,
                                createdAt |-> StoreTime(NextCoffeeId)])

\* GET /api/coffees: await queries.updateLastLogin(req.user.id)
GetCoffeesLogin(p) ==
    /\ slot[p].pc = "g_login"
    /\ UpdateLastLogin(slot[p].user.id)
    /\ Goto(p, [slot[p] EXCEPT !.pc = "g_select"])
    /\ UNCHANGED <<env, whitelist, registrations, coffees, tx, mails>>

\* GET /api/coffees: await queries.getUserCoffees(req.user.id), then the list
GetCoffeesSelect(p) ==
    /\ slot[p].pc = "g_select"
    /\ RespondWith(p, slot[p], ParsedCoffees(GetUserCoffees(slot[p].user.id)), 0)
    /\ UNCHANGED <<env, whitelist, registrations, users, coffees, tx, mails>>

GetCoffees(p) ==
    \/ GetCoffeesLogin(p)
    \/ GetCoffeesSelect(p)

\* what the handle does with a statement that finds the transaction state
\* unexpected (BEGIN inside a transaction, COMMIT outside one): one dialect
\* raises an error, the other warns and goes on
DialectOutcomes == {"error", "warning"}

\* beginTransaction() on the process-wide handle: the tables as they are
\* now are what a rollback brings back
BeginTransaction ==
    tx' = [active |-> TRUE, registrations |-> registrations,
           users |-> users, coffees |-> coffees]

\* rollback() on the process-wide handle: everything written through the
\* handle since BEGIN is undone, whoever wrote it
Rollback ==
    IF tx.active
    THEN /\ registrations' = tx.registrations
         /\ users' = tx.users
         /\ coffees' = tx.coffees
         /\ tx' = NoTx
    ELSE UNCHANGED <<registrations, users, coffees, tx>>

\* POST /api/coffees: await beginTransaction(), outside the inner try
SaveCoffeesBegin(p) ==
    /\ slot[p].pc = "c_begin"
    /\ IF ~tx.active
       THEN /\ BeginTransaction
            /\ Goto(p, [slot[p] EXCEPT !.pc = "c_delete"])
       ELSE /\ UNCHANGED tx
            /\ \E outcome \in DialectOutcomes :
                 IF outcome = "error"
                 THEN Catch(p, slot[p], BeginError)
                 ELSE Goto(p, [slot[p] EXCEPT !.pc = "c_delete"])
    /\ UNCHANGED <<env, whitelist, registrations, users, coffees, mails>>

\* the mutant of AfterWrite: the loop stops one element short
AfterWriteShort(s) ==
    IF s.given /\ s.k + 1 < Len(s.body) THEN [s EXCEPT !.pc = "c_insert"]
    ELSE [s EXCEPT !.pc = "c_commit"]

\* where the handler goes after the delete or an insert
AfterWrite(s) ==
    IF s.given /\ s.k < Len(s.body) THEN [s EXCEPT !.pc = "c_insert"]
    ELSE [s EXCEPT !.pc = "c_commit"]

\* coffees?.length || 0
SavedCount(s) == IF s.given THEN Len(s.body) ELSE 0

\* await queries.deleteUserCoffees(req.user.id)
SaveCoffeesDelete(p) ==
    /\ slot[p].pc = "c_delete"
    /\ coffees' = SelectSeq(coffees, LAMBDA row : row.user # slot[p].user.id)
    /\ Goto(p, AfterWrite(slot[p]))
    /\ UNCHANGED <<env, whitelist, registrations, users, tx, mails>>

\* await queries.saveCoffee(req.user.id, JSON.stringify(coffee)), one turn
\* of the for loop
SaveCoffeesInsert(p) ==
    /\ slot[p].pc = "c_insert"
    /\ SaveCoffee(slot[p].user.id, JsonStringify(slot[p].body[slot[p].k + 1]))
    /\ Goto(p, AfterWrite([slot[p] EXCEPT !.k = slot[p].k + 1]))
    /\ UNCHANGED <<env, whitelist, registrations, users, tx, mails>>

\* await commit(), then saved: coffees?.length || 0; a commit that throws
\* lands in the inner catch
SaveCoffeesCommit(p) ==
    /\ slot[p].pc = "c_commit"
    /\ IF tx.active
       THEN /\ tx' = NoTx
            /\ RespondWith(p, slot[p], <<>>, SavedCount(slot[p]))
       ELSE /\ UNCHANGED tx
            /\ \E outcome \in DialectOutcomes :
                 IF outcome = "error"
                 THEN Goto(p, [slot[p] EXCEPT !.pc = "c_rollback",
                                              !.thrown = CommitError])
                 ELSE RespondWith(p, slot[p], <<>>, SavedCount(slot[p]))
    /\ UNCHANGED <<env, whitelist, registrations, users, coffees, mails>>

\* the mutant of SaveCoffeesRollback: the error is answered, nothing is
\* rolled back
SaveCoffeesNoRollback(p) ==
    /\ slot[p].pc = "c_rollback"
    /\ Catch(p, slot[p], slot[p].thrown)
    /\ UNCHANGED <<env, whitelist, registrations, users, coffees, tx, mails>>

\* catch (txError) { await rollback(); throw txError } and the outer catch
SaveCoffeesRollback(p) ==
    /\ slot[p].pc = "c_rollback"
    /\ Rollback
    /\ Catch(p, slot[p], slot[p].thrown)
    /\ UNCHANGED <<env, whitelist, mails>>

\* the delete fails: the storage call throws inside the inner try
SaveCoffeesDeleteFails(p) ==
    /\ slot[p].pc = "c_delete"
    /\ Goto(p, [slot[p] EXCEPT !.pc = "c_rollback", !.thrown = StorageError])
    /\ UNCHANGED <<env, whitelist, registrations, users, coffees, tx, mails>>

\* an insert fails: the storage call throws inside the inner try
SaveCoffeesInsertFails(p) ==
    /\ slot[p].pc = "c_insert"
    /\ Goto(p, [slot[p] EXCEPT !.pc = "c_rollback", !.thrown = StorageError])
    /\ UNCHANGED <<env, whitelist, registrations, users, coffees, tx, mails>>

SaveCoffees(p) ==
    \/ SaveCoffeesBegin(p)
    \/ SaveCoffeesDelete(p)
    \/ SaveCoffeesInsert(p)
    \/ SaveCoffeesCommit(p)
    \/ SaveCoffeesRollback(p)

SaveCoffeesFaults(p) ==
    \/ SaveCoffeesDeleteFails(p)
    \/ SaveCoffeesInsertFails(p)

(* --------------------------- analyzeResponse ------------------------- *)
\* A text is a sequence of lexemes: the fence of three backticks, the tag
\* json, the
\* braces, a member "key": value, a word of prose, a blank and a newline.

\* the three backticks that open and close a fenced block
Fence == "fence"
JsonTags == {"json", "JSON"}

NoTextMessage == "No text content returned from analysis provider"
ParseMessage  == "Could not parse coffee data"
SyntaxMessage == "SyntaxError"

\* the outcome of a call: the value returned, or the message thrown
Returns(value) == [thrown |-> "", value |-> value]
Throws(message) == [thrown |-> message, value |-> <<>>]

\* a regular expression that did not match, and one that did
NoMatch == [matched |-> FALSE, text |-> <<>>]
Match(text) == [matched |-> TRUE, text |-> text]

\* item?.type === 'text' && typeof item?.text === 'string'
IsTextItem(item) == item.type = "text" /\ item.text # Absent

\* responseBody?.content?.filter(..)?.map(item => item.text) || []; given
\* says whether the body is there and has a content
TextSegments(responseBody) ==
    IF ~responseBody.given THEN <<>>
    ELSE LET kept == SelectSeq(responseBody.content, IsTextItem)
         IN  [i \in 1..Len(kept) |-> kept[i].text]

\* textSegments.join('\n')
RECURSIVE Join(_)
Join(segments) ==
    IF segments = <<>> THEN <<>>
    ELSE IF Len(segments) = 1 THEN segments[1]
    ELSE segments[1] \o <<"\n">> \o Join(Tail(segments))

\* the least index from which on, at or after from, s carries c; 0 if none
IndexFrom(s, c, from) ==
    IF \E i \in from..Len(s) : s[i] = c
    THEN CHOOSE i \in from..Len(s) : s[i] = c /\ \A j \in from..(i - 1) : s[j] # c
    ELSE 0

\* the greatest index at which s carries c; 0 if none
LastIndex(s, c) ==
    IF \E i \in 1..Len(s) : s[i] = c
    THEN CHOOSE i \in 1..Len(s) : s[i] = c /\ \A j \in (i + 1)..Len(s) : s[j] # c
    ELSE 0

\* the mutant of FencedMatch: the capture runs to the last fence
FencedMatchGreedy(text) ==
    LET open  == IndexFrom(text, Fence, 1)
        close == LastIndex(text, Fence)
    IN  IF open = 0 \/ close <= open THEN NoMatch
        ELSE LET rest == SubSeq(text, open + 1, close - 1)
                 untagged == IF rest # <<>> /\ rest[1] \in JsonTags
                             THEN Tail(rest) ELSE rest
             IN  Match(Trim(untagged))

\* combinedText.match(/FENCE(?:json)?\s*([\s\S]*?)\s*FENCE/i), FENCE
\* being the three backticks: the leftmost
\* fence that has a fence after it opens the match, the tag and the blanks
\* after it are skipped, and the lazy group ends before the blanks that
\* precede the next fence
FencedMatch(text) ==
    LET open  == IndexFrom(text, Fence, 1)
        close == IF open = 0 THEN 0 ELSE IndexFrom(text, Fence, open + 1)
    IN  IF close = 0 THEN NoMatch
        ELSE LET rest == SubSeq(text, open + 1, close - 1)
                 untagged == IF rest # <<>> /\ rest[1] \in JsonTags
                             THEN Tail(rest) ELSE rest
             IN  Match(Trim(untagged))

\* candidate.match(/\{[\s\S]*\}/): from the first '{' to the last '}'
ObjectMatch(candidate) ==
    LET first == IndexFrom(candidate, "{", 1)
        last  == LastIndex(candidate, "}")
    IN  IF first = 0 \/ last < first THEN NoMatch
        ELSE Match(SubSeq(candidate, first, last))

NotSpace(c) == ~IsSpace(c)

\* JSON.parse of a text that starts with '{' and ends with '}': blanks are
\* skipped; an object is empty or has one member (the lexemes have no
\* comma); anything else is a SyntaxError
JsonParseText(text) ==
    LET lexemes == SelectSeq(text, NotSpace)
    IN  IF lexemes \in {<<"{", "}">>, <<"{", "m", "}">>}
        THEN Returns(lexemes)
        ELSE Throws(SyntaxMessage)

\* the mutant of ExtractCoffeeJson: an empty list of segments is let
\* through
ExtractCoffeeJsonUnguarded(responseBody) ==
    LET combinedText == Trim(Join(TextSegments(responseBody)))
        fencedMatch  == FencedMatch(combinedText)
        candidate    == IF fencedMatch.matched THEN fencedMatch.text
                        ELSE combinedText
        objectMatch  == ObjectMatch(candidate)
    IN  IF ~objectMatch.matched THEN Throws(ParseMessage)
        ELSE JsonParseText(objectMatch.text)

\* extractCoffeeJsonFromAnthropicResponse
ExtractCoffeeJson(responseBody) ==
    LET textSegments == TextSegments(responseBody)
        combinedText == Trim(Join(textSegments))
        fencedMatch  == FencedMatch(combinedText)
        candidate    == IF fencedMatch.matched THEN fencedMatch.text
                        ELSE combinedText
        objectMatch  == ObjectMatch(candidate)
    IN  IF Len(textSegments) = 0 THEN Throws(NoTextMessage)
        ELSE IF ~objectMatch.matched THEN Throws(ParseMessage)
        ELSE JsonParseText(objectMatch.text)

\* the fields buildCoffeeDefaults fills, with their defaults
DefaultOf ==
    [name |-> "Unknown", origin |-> "Unknown", process |-> "washed",
     cultivar |-> "Unknown", altitude |-> "1500", roaster |-> "Unknown",
     tastingNotes |-> "No notes"]

Null == "<null>"

\* coffeeData?.key: a missing key, and any key of a coffeeData that is
\* null or undefined, reads as undefined
Field(coffeeData, key) ==
    IF ~coffeeData.given \/ key \notin DOMAIN coffeeData.fields THEN Undefined
    ELSE coffeeData.fields[key]

\* the mutant of OrDefault: only null and undefined give way to the default
OrDefaultNullish(v, d) == IF v \in {Undefined, Null} THEN d ELSE v

\* v || d on a string, null or undefined
OrDefault(v, d) == IF v \in {Undefined, Null, ""} THEN d ELSE v

\* buildCoffeeDefaults(coffeeData), now being new Date().toISOString()
BuildCoffeeDefaults(coffeeData, now) ==
    [key \in DOMAIN DefaultOf \cup {"addedDate"} |->
        IF key = "addedDate" THEN now
        ELSE OrDefault(Field(coffeeData, key), DefaultOf[key])]

(* --------------------------- analyze-coffee --------------------------- *)
\* router.post('/') of the analyze router is the op "analyze",
\* app.post('/api/analyze-coffee') of server.js the op "server_analyze".
\* calls counts the fetches a request has sent to the provider.

\* what the provider may answer: 200 with a body, 429, another failure
\* status, or no answer at all (fetch rejects)
ProviderOk == "200"
ProviderLimited == "429"
ProviderDown == "500"
NetworkFailure == "fetch failed"
ProviderOutcomes == {ProviderOk, ProviderLimited, ProviderDown, NetworkFailure}

AnalysisFailed == "Analysis failed. Please try again."

\* a request for analysis arrives: authenticateUser reads and checks the
\* credentials; arg is req.body.imageData
AnalyzeStart(p, cap, ops, tokens, devs, images) ==
    /\ CanStart(p, cap)
    /\ \E op \in ops, token \in tokens, dev \in devs, imageData \in images :
         LET s == [Idle EXCEPT !.op = op, !.token = token, !.dev = dev,
                               !.arg = imageData]
         IN  IF token = NoToken
             THEN Respond(p, s, 400, "Token required", FALSE)
             ELSE IF dev = NoDevice
                  THEN Respond(p, s, 400, "Device ID required", FALSE)
                  ELSE Goto(p, [s EXCEPT !.pc = "a_user"])
    /\ UNCHANGED <<env, whitelist, registrations, users, coffees, tx, mails>>

\* the handler up to await fetch(..): !imageData answers 400, the router
\* answers 503 without an API key, else the one request to the provider
\* is sent
AnalyzeFetch(p) ==
    /\ slot[p].pc = "z_fetch"
    /\ IF slot[p].arg \in {Undefined, ""}
       THEN Respond(p, slot[p], 400, "Image data required", FALSE)
       ELSE IF slot[p].op = "analyze" /\ env.apiKey \in {Undefined, ""}
       THEN Respond(p, slot[p], 503, "AI analysis is temporarily unavailable", FALSE)
       ELSE Goto(p, [slot[p] EXCEPT !.calls = slot[p].calls + 1, !.pc = "z_response"])
    /\ UNCHANGED <<env, whitelist, registrations, users, coffees, tx, mails>>

\* server.js: data.content[0].text, text.match(/\{[\s\S]*\}/), JSON.parse
ServerExtractCoffeeJson(data) ==
    IF ~data.given \/ data.content = <<>> THEN Throws(TypeError)
    ELSE IF data.content[1].text = Absent THEN Throws(TypeError)
    ELSE LET jsonMatch == ObjectMatch(data.content[1].text)
         IN  IF ~jsonMatch.matched THEN Throws(ParseMessage)
             ELSE JsonParseText(jsonMatch.text)

\* the handler after await fetch(..): a rejected fetch lands in the catch;
\* !response.ok is answered 429 or 502 by the router and thrown into the
\* catch by server.js; the body of an answer that is ok is parsed
AnalyzeRespond(p, bodies) ==
    /\ slot[p].pc = "z_response"
    /\ \E outcome \in ProviderOutcomes, data \in bodies :
         LET s == [slot[p] EXCEPT !.provider = outcome]
             coffeeData == IF s.op = "analyze" THEN ExtractCoffeeJson(data)
                           ELSE ServerExtractCoffeeJson(data)
         IN  IF outcome = NetworkFailure
             THEN Respond(p, [s EXCEPT !.thrown = NetworkFailure], 500, AnalysisFailed, FALSE)
             ELSE IF outcome # ProviderOk
             THEN IF s.op = "analyze"
                  THEN IF outcome = ProviderLimited
                       THEN Respond(p, s, 429, "AI analysis limit reached", FALSE)
                       ELSE Respond(p, s, 502, "Analysis provider is unavailable", FALSE)
                  ELSE Respond(p, [s EXCEPT !.thrown = "API error"], 500, AnalysisFailed, FALSE)
             ELSE IF coffeeData.thrown # ""
             THEN Respond(p, [s EXCEPT !.thrown = coffeeData.thrown], 500,
                          AnalysisFailed, FALSE)
             ELSE Respond(p, s, 200, "", FALSE)
    /\ UNCHANGED <<env, whitelist, registrations, users, coffees, tx, mails>>

Analyze(p, cap, ops, tokens, devs, images, bodies) ==
    \/ AnalyzeStart(p, cap, ops, tokens, devs, images)
    \/ AuthGetUser(p)
    \/ AuthBind(p)
    \/ AnalyzeFetch(p)
    \/ AnalyzeRespond(p, bodies)

(* --------------------------- storage failures ------------------------ *)

\* the positions at which register, validate, authenticateUser and the
\* coffee routes await a storage call
StoragePcs ==
    {"r_whitelist", "r_existing", "r_generate", "r_insert",
     "v_user", "v_registration", "v_create", "v_used", "v_reget", "v_bind",
     "v_login", "a_user", "a_bind", "g_login", "g_select",
     "c_begin", "c_delete", "c_insert", "c_commit", "c_rollback"}

\* the storage calls of POST /api/coffees inside its inner try
InnerTryPcs == {"c_delete", "c_insert", "c_commit"}

\* the storage call a handler awaits throws and has written nothing: the
\* inner try of POST /api/coffees goes to its catch (rollback, rethrow),
\* every other call lands in the handler's catch
StorageFails(p) ==
    /\ slot[p].pc \in StoragePcs
    /\ IF slot[p].pc \in InnerTryPcs
       THEN Goto(p, [slot[p] EXCEPT !.pc = "c_rollback", !.thrown = StorageError])
       ELSE Catch(p, slot[p], StorageError)
    /\ UNCHANGED <<env, whitelist, registrations, users, coffees, tx, mails>>

(* --------------------------- admin whitelist -------------------------- *)

\* the mutant of AdminAuth: a request without the header passes when no
\* secret is configured
AdminAuthLoose(pw) == pw = env.adminPassword

\* adminAuth: !(!pw || pw !== process.env.ADMIN_PASSWORD)
AdminAuth(pw) == ~(pw \in {Undefined, ""} \/ pw # env.adminPassword)

\* const { email, name = '', website = '', note = '' } = req.body
Default(v) == IF v = Undefined THEN "" ELSE v

\* the keys of allowed the patch body supplies: req.body[key] !== undefined
Allowed == {"name", "website", "note"}
Updates(fields) == {key \in Allowed : fields[key] # Undefined}

\* where the add handler goes first, by database type
AddEntry == IF env.databaseType = "postgresql" THEN "w_upsert" ELSE "w_existing"

\* a request for an admin route arrives: adminAuth, then the handler up to
\* its first storage call.  fields is the body of an add or a patch, id
\* the :id of a patch or a remove.
AdminStart(p, cap, ops, pws, ids, bodies) ==
    /\ CanStart(p, cap)
    /\ \E op \in ops, pw \in pws, id \in ids \cup {0},
          fields \in bodies \cup {NoFields} :
         /\ op \notin {"admin_patch", "admin_remove"} => id = 0
         /\ op \in {"admin_patch", "admin_remove"} => id # 0
         /\ op \notin {"admin_add", "admin_patch"} => fields = NoFields
         /\ LET email == IF op = "admin_add" THEN fields.email ELSE <<>>
                s == [Idle EXCEPT !.op = op, !.pw = pw, !.email = email,
                        !.id = id, !.fields = fields]
            IN  IF ~AdminAuth(pw)
                THEN Respond(p, s, 401, "Unauthorized", FALSE)
                ELSE IF op = "admin_list"
                THEN Goto(p, [s EXCEPT !.pc = "w_list"])
                ELSE IF op = "admin_add"
                THEN IF ValidEmail(email)
                     THEN Goto(p, [s EXCEPT !.pc = AddEntry])
                     ELSE Respond(p, s, 400, "invalid_email", FALSE)
                ELSE IF op = "admin_patch"
                THEN IF Updates(fields) = {}
                     THEN Respond(p, s, 400, "no_valid_fields", FALSE)
                     ELSE Goto(p, [s EXCEPT !.pc = "w_update"])
                ELSE Goto(p, [s EXCEPT !.pc = "w_delete"])
    /\ UNCHANGED <<env, whitelist, registrations, users, coffees, tx, mails>>

\* the mutant of StatusCase: the two joined columns are tested in the
\* other order
StatusCaseTokenFirst(uid, token) ==
    IF token # Undefined THEN "sent"
    ELSE IF uid # NoUser.id THEN "registered"
    ELSE "invited"

\* CASE WHEN u.id IS NOT NULL THEN 'registered' WHEN r.token IS NOT NULL
\* THEN 'sent' ELSE 'invited' END; a NULL of the outer join is Undefined
\* for the token and the id of no row for u.id
StatusCase(uid, token) ==
    IF uid # NoUser.id THEN "registered"
    ELSE IF token # Undefined THEN "sent"
    ELSE "invited"

\* one row of the SELECT
ListRow(w, token, uid) ==
    [id |-> w.id, email |-> w.email, name |-> w.name, website |-> w.website,
     note |-> w.note, token |-> token, status |-> StatusCase(uid, token)]

\* LEFT JOIN users u ON u.token = r.token AND u.device_id IS NOT NULL
JoinUsers(w, r) ==
    LET us == {u \in users : u.token = r.token /\ u.deviceId # NoDevice}
    IN  IF us = {} THEN {ListRow(w, r.token, NoUser.id)}
        ELSE {ListRow(w, r.token, u.id) : u \in us}

\* FROM whitelist w LEFT JOIN registrations r ON r.email = w.email
JoinRegistrations(w) ==
    LET rs == RegistrationsByEmail(w.email)
    IN  IF rs = {} THEN {ListRow(w, Undefined, NoUser.id)}
        ELSE UNION {JoinUsers(w, r) : r \in rs}

\* the rows of the SELECT of GET /whitelist, their order left aside
ListEntries == UNION {JoinRegistrations(w) : w \in whitelist}

\* GET /whitelist: await db.all(..), then res.json({ success, entries })
AdminList(p) ==
    /\ slot[p].pc = "w_list"
    /\ log' = Append(log, [Response(slot[p], 200, "", FALSE) EXCEPT
                             !.entries = ListEntries, !.wbefore = whitelist])
    /\ slot' = [slot EXCEPT ![p] = Idle]
    /\ UNCHANGED <<env, whitelist, registrations, users, coffees, tx, mails>>

\* the id the storage engine gives the next whitelist row
NextWhitelistId ==
    IF whitelist = {} THEN 1
    ELSE (CHOOSE n \in {w.id : w \in whitelist} :
            \A w \in whitelist : w.id <= n) + 1

\* the unique constraint on whitelist(email)
WhitelistInsertable(email) == WhitelistByEmail(email) = {}

\* the values of the INSERT: [email.toLowerCase().trim(), name, website, note]
WhitelistRow(s) ==
    [id |-> NextWhitelistId, email |-> NormalizedEmail(s.email),
     name |-> Default(s.fields.name), website |-> Default(s.fields.website),
     note |-> Default(s.fields.note)]

\* res.json({ success: true, id })
RespondAdded(p, s, id) ==
    /\ log' = Append(log, [Response(s, 200, "", FALSE) EXCEPT
                             !.newId = id, !.wbefore = whitelist])
    /\ slot' = [slot EXCEPT ![p] = Idle]

\* an admin answer without a payload; wbefore is the whitelist as the
\* answering step found it
RespondAdmin(p, s, status, error) ==
    /\ log' = Append(log, [Response(s, status, error, FALSE) EXCEPT
                             !.wbefore = whitelist])
    /\ slot' = [slot EXCEPT ![p] = Idle]

\* POST /whitelist, postgresql: INSERT .. ON CONFLICT (email) DO NOTHING
\* RETURNING id; no row returned answers 409
AdminAddUpsert(p) ==
    /\ slot[p].pc = "w_upsert"
    /\ IF WhitelistInsertable(NormalizedEmail(slot[p].email))
       THEN /\ whitelist' = whitelist \cup {WhitelistRow(slot[p])}
            /\ RespondAdded(p, slot[p], NextWhitelistId)
       ELSE /\ UNCHANGED whitelist
            /\ RespondAdmin(p, slot[p], 409, "conflict")
    /\ UNCHANGED <<env, registrations, users, coffees, tx, mails>>

\* POST /whitelist, sqlite: SELECT id FROM whitelist WHERE email = ?
AdminAddExisting(p) ==
    /\ slot[p].pc = "w_existing"
    /\ IF WhitelistByEmail(NormalizedEmail(slot[p].email)) # {}
       THEN RespondAdmin(p, slot[p], 409, "conflict")
       ELSE Goto(p, [slot[p] EXCEPT !.pc = "w_insert"])
    /\ UNCHANGED <<env, whitelist, registrations, users, coffees, tx, mails>>

\* POST /whitelist, sqlite: INSERT INTO whitelist; a constraint violation
\* throws into the catch, which answers 500
AdminAddInsert(p) ==
    /\ slot[p].pc = "w_insert"
    /\ IF WhitelistInsertable(WhitelistRow(slot[p]).email)
       THEN /\ whitelist' = whitelist \cup {WhitelistRow(slot[p])}
            /\ RespondAdded(p, slot[p], NextWhitelistId)
       ELSE /\ UNCHANGED whitelist
            /\ RespondAdmin(p, slot[p], 500, "Server error")
    /\ UNCHANGED <<env, registrations, users, coffees, tx, mails>>

\* one column of the UPDATE: set when the key is among the updates
Patched(w, fields, key) ==
    IF key \in Updates(fields) THEN fields[key] ELSE w[key]

\* the mutant of PatchRow: every key of the body is written
PatchRowAllKeys(w, fields) ==
    [w EXCEPT !.name = Patched(w, fields, "name"),
              !.website = Patched(w, fields, "website"),
              !.note = Patched(w, fields, "note"),
              !.email = IF fields.email # <<>> THEN fields.email ELSE w.email]

\* UPDATE whitelist SET <the updates> on one row
PatchRow(w, fields) ==
    [w EXCEPT !.name = Patched(w, fields, "name"),
              !.website = Patched(w, fields, "website"),
              !.note = Patched(w, fields, "note")]

\* PATCH /whitelist/:id: UPDATE whitelist SET .. WHERE id = ?
AdminPatch(p) ==
    /\ slot[p].pc = "w_update"
    /\ whitelist' = {IF w.id = slot[p].id THEN PatchRow(w, slot[p].fields) ELSE w :
                       w \in whitelist}
    /\ RespondAdmin(p, slot[p], 200, "")
    /\ UNCHANGED <<env, registrations, users, coffees, tx, mails>>

\* DELETE /whitelist/:id: DELETE FROM whitelist WHERE id = ?
AdminRemove(p) ==
    /\ slot[p].pc = "w_delete"
    /\ whitelist' = {w \in whitelist : w.id # slot[p].id}
    /\ RespondAdmin(p, slot[p], 200, "")
    /\ UNCHANGED <<env, registrations, users, coffees, tx, mails>>

Admin(p, cap, ops, pws, ids, bodies) ==
    \/ AdminStart(p, cap, ops, pws, ids, bodies)
    \/ AdminList(p)
    \/ AdminAddUpsert(p)
    \/ AdminAddExisting(p)
    \/ AdminAddInsert(p)
    \/ AdminPatch(p)
    \/ AdminRemove(p)

(* --------------------------- specifications --------------------------- *)

\* coffee records as clients post them: JSON objects; the third is one
\* the client got from an earlier listing and posts back, with the id and
\* the savedAt the listing gave it
Coffee1 == [name |-> "c1"]
Coffee2 == [name |-> "c2"]
Coffee3 == [name |-> "c3", id |-> 7, savedAt |-> 5]

CoffeeBodies == {<<>>, <<Coffee1>>, <<Coffee2, Coffee3>>}
CoffeeTokens == {LegacyToken1, LegacyToken2}

\* registration and validation, requests overlapping at their awaits
Next ==
    \E p \in Slots :
        \/ Register(p, MaxReqs, RawEmails)
        \/ Validate(p, MaxReqs, PresentedTokens, Devices)
        \/ ServerValidate(p, MaxReqs, PresentedTokens, Devices)
        \/ AuthenticateUser(p, MaxReqs, {"get_coffees"}, PresentedTokens, Devices, {<<>>})
        \/ GetCoffees(p)

Spec == Init /\ [][Next]_vars

\* the same operations, one request at a time
SeqNext ==
    \/ Register(1, MaxSeqReqs, RawEmails)
    \/ Validate(1, MaxSeqReqs, PresentedTokens, Devices)

SeqSpec == Init /\ [][SeqNext]_vars

\* the coffee record store, requests overlapping at their awaits
CoffeeNext ==
    \E p \in Slots :
        \/ AuthenticateUser(p, MaxCoffeeReqs, {"get_coffees", "post_coffees"},
                            CoffeeTokens, {"dev1"}, CoffeeBodies)
        \/ GetCoffees(p)
        \/ SaveCoffees(p)

CoffeeSpec == Init /\ [][CoffeeNext]_vars

\* the coffee record store with failing storage calls, one request at a time
CoffeeFaultNext ==
    \/ AuthenticateUser(1, MaxCoffeeReqs, {"get_coffees", "post_coffees"},
                        CoffeeTokens, {"dev1"}, CoffeeBodies)
    \/ GetCoffees(1)
    \/ SaveCoffees(1)
    \/ SaveCoffeesFaults(1)

CoffeeFaultSpec == Init /\ [][CoffeeFaultNext]_vars

\* the credential checks of the three guarded entry points, requests
\* overlapping at their awaits
AuthNext ==
    \E p \in Slots :
        \/ Register(p, MaxAuthReqs, {EmailA})
        \/ Validate(p, MaxAuthReqs, AuthTokens, AuthDevices)
        \/ ServerValidate(p, MaxAuthReqs, AuthTokens, AuthDevices)
        \/ AuthenticateUser(p, MaxAuthReqs, {"get_coffees"}, AuthTokens, AuthDevices, {<<>>})
        \/ GetCoffees(p)

AuthSpec == Init /\ [][AuthNext]_vars


\* generateToken() on its own: the six random bytes are drawn, the call
\* returns the token
TokenInit ==
    /\ env = DeployedEnv
    /\ whitelist = InitialWhitelist
    /\ registrations = {}
    /\ users = LegacyUsers
    /\ coffees = <<>>
    /\ tx = NoTx
    /\ mails = <<>>
    /\ log = <<>>
    /\ \E bytes \in TokenByteSeqs :
         slot = [p \in Slots |->
                   IF p = 1 THEN [Idle EXCEPT !.op = "generate_token",
                                              !.pc = "t_call", !.bytes = bytes]
                   ELSE Idle]

GenerateTokenCall(p) ==
    /\ slot[p].pc = "t_call"
    /\ Goto(p, [slot[p] EXCEPT !.cand = GenerateToken(slot[p].bytes), !.pc = "t_done"])
    /\ UNCHANGED <<env, whitelist, registrations, users, coffees, tx, mails>>

TokenNext == GenerateTokenCall(1)

TokenSpec == TokenInit /\ [][TokenNext]_vars


\* register alone, one request at a time; a handler that awaits a storage
\* call or the mail provider is resumed when the call returns
LoopNext == Register(1, MaxLoopReqs, {EmailA, EmailADot})

LoopSpec == Init /\ [][LoopNext]_vars /\ WF_vars(LoopNext)

\* the guarded coffee routes under every kind of credentials, requests
\* overlapping at their awaits
GuardTokens == {NoToken, UnknownToken, LegacyToken1}
GuardBodies == {<<>>, <<Coffee1>>}

GuardNext ==
    \E p \in Slots :
        \/ AuthenticateUser(p, MaxGuardReqs, {"get_coffees", "post_coffees"},
                            GuardTokens, AuthDevices, GuardBodies)
        \/ GetCoffees(p)
        \/ SaveCoffees(p)

GuardSpec == Init /\ [][GuardNext]_vars

\* the environments a deployment may run in: the secret unset, empty or
\* set, on either database type
AdminEnvs ==
    [adminPassword : {Undefined, "", AdminSecret},
     databaseType : {"postgresql", "sqlite"},
     apiKey : {ApiKey}]

AdminInit ==
    /\ env \in AdminEnvs
    /\ whitelist = InitialWhitelist
    /\ registrations = {}
    /\ users = LegacyUsers
    /\ coffees = <<>>
    /\ tx = NoTx
    /\ mails = <<>>
    /\ slot = [p \in Slots |-> Idle]
    /\ log = <<>>

AdminOps == {"admin_list", "admin_add", "admin_patch", "admin_remove"}

\* what a caller may put in x-admin-password: nothing, the empty string,
\* the secret, another string, a user token
AdminPasswords == {Undefined, "", AdminSecret, "guess", LegacyToken1}

\* the admin routes under every kind of credential, requests overlapping
GateNext ==
    \E p \in Slots :
        Admin(p, MaxGateReqs, AdminOps, AdminPasswords, {1},
              {[NoFields EXCEPT !.note = "vip", !.email = EmailB]})

GateSpec == AdminInit /\ [][GateNext]_vars

\* whitelist administration by a caller who holds the secret, on either
\* database type, requests overlapping at their awaits
WhitelistInit == AdminInit /\ env.adminPassword = AdminSecret

\* emails an administrator may add: one that is listed, in another
\* spelling; a new one in two spellings; one without '@'
AdminEmails == {EmailAVar, EmailB, EmailBVar, EmailBad}

\* the :id of a patch or a remove: a row of the start, and the next id
AdminIds == {1, 3}

\* bodies of add and patch: an email alone, a recognized field alone, and
\* a recognized field next to an email
AdminBodies ==
    {[NoFields EXCEPT !.email = e] : e \in AdminEmails}
    \cup {[NoFields EXCEPT !.note = "vip"],
           [NoFields EXCEPT !.name = "Ann", !.email = EmailB]}

WhitelistNext ==
    \E p \in Slots :
        Admin(p, MaxAdminReqs, AdminOps, {AdminSecret}, AdminIds, AdminBodies)

WhitelistSpec == WhitelistInit /\ [][WhitelistNext]_vars

\* the whitelist listing next to registration and validation, one request
\* at a time
StatusNext ==
    \/ Register(1, MaxStatusReqs, {EmailA, EmailADot})
    \/ Validate(1, MaxStatusReqs, IssuedTokens \cup {LegacyToken2}, {"dev1"})
    \/ AdminStart(1, MaxStatusReqs, {"admin_list", "admin_add"}, {AdminSecret}, {},
                  {[NoFields EXCEPT !.email = EmailB]})
    \/ AdminList(1)
    \/ AdminAddExisting(1)
    \/ AdminAddInsert(1)

StatusSpec == Init /\ [][StatusNext]_vars

\* extractAuthCredentials on its own: a request is drawn, the call returns
\* the credentials
TokenT1 == <<"t","1">>
TokenT2 == <<"t","2">>
TokenT3 == <<"t","3">>

AuthorizationHeaders ==
    {Absent, <<>>, BearerPrefix, BearerPrefix \o TokenT1,
     <<"B","a","s","i","c"," ">> \o TokenT1,
     <<"b","e","a","r","e","r"," ">> \o TokenT1,
     <<"B","e","a","r","e","r">> \o TokenT1}

ExtractRequests ==
    [authorization : AuthorizationHeaders,
     bodyToken : {Absent, <<>>, TokenT2},
     queryToken : {Absent, <<>>, TokenT3},
     xDeviceId : {Absent, <<>>, <<"d","1">>},
     bodyDeviceId : {Absent, <<>>, <<"d","2">>},
     queryDeviceId : {Absent, <<"d","3">>}]

ExtractInit ==
    /\ env = DeployedEnv
    /\ whitelist = InitialWhitelist
    /\ registrations = {}
    /\ users = LegacyUsers
    /\ coffees = <<>>
    /\ tx = NoTx
    /\ mails = <<>>
    /\ log = <<>>
    /\ \E req \in ExtractRequests :
         slot = [p \in Slots |->
                   IF p = 1 THEN [Idle EXCEPT !.op = "extract_credentials",
                                              !.pc = "x_call", !.arg = req]
                   ELSE Idle]

ExtractCall(p) ==
    /\ slot[p].pc = "x_call"
    /\ Goto(p, [slot[p] EXCEPT !.ret = ExtractAuthCredentials(slot[p].arg),
                               !.pc = "x_done"])
    /\ UNCHANGED <<env, whitelist, registrations, users, coffees, tx, mails>>

ExtractNext == ExtractCall(1)

ExtractSpec == ExtractInit /\ [][ExtractNext]_vars

\* register, validate and the coffee routes with storage calls and mail
\* sends that may fail, one request at a time
FaultNext ==
    \/ Register(1, MaxFaultReqs, {EmailA})
    \/ Validate(1, MaxFaultReqs, IssuedTokens \cup {LegacyToken2}, {"dev1"})
    \/ AuthenticateUser(1, MaxFaultReqs, {"get_coffees", "post_coffees"},
                        {LegacyToken1}, {"dev1"}, {<<>>, <<Coffee1>>})
    \/ GetCoffees(1)
    \/ SaveCoffees(1)
    \/ StorageFails(1)

FaultSpec == Init /\ [][FaultNext]_vars

\* extractCoffeeJsonFromAnthropicResponse on its own: a response body is
\* drawn, the call returns or throws
Lexemes == {Fence, "{", "}", "m", "a", " "}

\* every text of up to MaxTextLen lexemes
Texts == UNION {[1..n -> Lexemes] : n \in 0..MaxTextLen}

TextItem(text) == [type |-> "text", text |-> text]

\* items next to which a text may stand: a tool call, an item that is
\* null, a text item whose text is no string, and text items
ItemSamples ==
    {[type |-> "tool_use", text |-> <<"{", "}">>],
     [type |-> Undefined, text |-> Absent],
     [type |-> "text", text |-> Absent],
     TextItem(<<>>),
     TextItem(<<"{">>),
     TextItem(<<"m", "}", " ">>),
     TextItem(<<"a", "\n", Fence, "JSON", "\n", "{", "m", "}", "\n", Fence>>),
     TextItem(<<Fence, "json", "a", Fence, "{", "}", Fence, "{", "m", "}", Fence>>)}

Body(content) == [given |-> TRUE, content |-> content]

\* a body that is null or has no content
NoContent == [given |-> FALSE, content |-> <<>>]

ResponseBodies ==
    {NoContent, Body(<<>>)}
    \cup {Body(<<TextItem(text)>>) : text \in Texts}
    \cup {Body(<<a>>) : a \in ItemSamples}
    \cup {Body(<<a, b>>) : a \in ItemSamples, b \in ItemSamples}

AnalyzeInit ==
    /\ env = DeployedEnv
    /\ whitelist = InitialWhitelist
    /\ registrations = {}
    /\ users = LegacyUsers
    /\ coffees = <<>>
    /\ tx = NoTx
    /\ mails = <<>>
    /\ log = <<>>
    /\ \E responseBody \in ResponseBodies :
         slot = [p \in Slots |->
                   IF p = 1 THEN [Idle EXCEPT !.op = "extract_coffee_json",
                                              !.pc = "j_call", !.arg = responseBody]
                   ELSE Idle]

ExtractCoffeeJsonCall(p) ==
    /\ slot[p].pc = "j_call"
    /\ Goto(p, [slot[p] EXCEPT !.ret = ExtractCoffeeJson(slot[p].arg),
                               !.pc = "j_done"])
    /\ UNCHANGED <<env, whitelist, registrations, users, coffees, tx, mails>>

AnalyzeNext == ExtractCoffeeJsonCall(1)

AnalyzeSpec == AnalyzeInit /\ [][AnalyzeNext]_vars

\* buildCoffeeDefaults on its own: the coffee data and the time are drawn
FieldValues == {Undefined, Null, "", "Kenya"}

IsoDates == {"2024-01-01T00:00:00.000Z", "2025-06-30T12:00:00.000Z"}

\* coffee data with the seven fields, with or without an addedDate and a
\* field the function does not know, and coffee data that is undefined
CoffeeData ==
    {[given |-> FALSE, fields |-> [key \in {} |-> ""]]}
    \cup {[given |-> TRUE, fields |-> f] : f \in [DOMAIN DefaultOf -> FieldValues]}
    \cup {[given |-> TRUE,
           fields |-> [key \in DOMAIN DefaultOf \cup {"addedDate", "id"} |->
                          IF key \in {"addedDate", "id"} THEN "1999" ELSE f[key]]] :
            f \in [DOMAIN DefaultOf -> {Undefined, "Kenya"}]}

DefaultsInit ==
    /\ env = DeployedEnv
    /\ whitelist = InitialWhitelist
    /\ registrations = {}
    /\ users = LegacyUsers
    /\ coffees = <<>>
    /\ tx = NoTx
    /\ mails = <<>>
    /\ log = <<>>
    /\ \E coffeeData \in CoffeeData :
         slot = [p \in Slots |->
                   IF p = 1 THEN [Idle EXCEPT !.op = "build_coffee_defaults",
                                              !.pc = "b_call", !.arg = coffeeData]
                   ELSE Idle]

BuildCoffeeDefaultsCall(p) ==
    /\ slot[p].pc = "b_call"
    /\ \E now \in IsoDates :
         Goto(p, [slot[p] EXCEPT !.ret = BuildCoffeeDefaults(slot[p].arg, now),
                                 !.pc = "b_done"])
    /\ UNCHANGED <<env, whitelist, registrations, users, coffees, tx, mails>>

DefaultsNext == BuildCoffeeDefaultsCall(1)

DefaultsSpec == DefaultsInit /\ [][DefaultsNext]_vars

\* validate and the water hardness of an account, one request at a time
HardnessValues ==
    {NoValue, TextValue}
    \cup {NumberValue(n) : n \in {MinHardness - 1, MinHardness, MinHardness + 1,
                                  MaxHardness, MaxHardness + 1}}

ProfileNext ==
    \/ Register(1, MaxProfileReqs, {EmailA})
    \/ Validate(1, MaxProfileReqs, IssuedTokens \cup {LegacyToken2}, {"dev1", "dev2"})
    \/ WaterHardness(1, MaxProfileReqs, IssuedTokens \cup {LegacyToken2}, {"dev1"},
                     HardnessValues)

ProfileSpec == Init /\ [][ProfileNext]_vars

\* the coffee record store of two accounts, requests overlapping at their
\* awaits, with failing storage calls
IsolationNext ==
    \E p \in Slots :
        \/ AuthenticateUser(p, MaxCoffeeReqs, {"get_coffees", "post_coffees"},
                            CoffeeTokens, {"dev1"}, {<<>>, <<Coffee1>>})
        \/ GetCoffees(p)
        \/ SaveCoffees(p)
        \/ SaveCoffeesFaults(p)

IsolationSpec == Init /\ [][IsolationNext]_vars

\* the analyze routes under every kind of credentials and image, with and
\* without an API key, requests overlapping at their awaits
ProxyInit ==
    /\ env \in {DeployedEnv, [DeployedEnv EXCEPT !.apiKey = Undefined]}
    /\ whitelist = InitialWhitelist
    /\ registrations = {}
    /\ users = LegacyUsers
    /\ coffees = <<>>
    /\ tx = NoTx
    /\ mails = <<>>
    /\ slot = [p \in Slots |-> Idle]
    /\ log = <<>>

ProxyImages == {Undefined, "", "base64"}

ProxyBodies ==
    {NoContent, Body(<<TextItem(<<"a">>)>>), Body(<<TextItem(<<"{", "m", "}">>)>>)}

ProxyNext ==
    \E p \in Slots :
        Analyze(p, MaxProxyReqs, {"analyze", "server_analyze"},
                {NoToken, UnknownToken, LegacyToken1}, {"dev1", "dev2"},
                ProxyImages, ProxyBodies)

ProxySpec == ProxyInit /\ [][ProxyNext]_vars

(* --------------------------- properties ------------------------------- *)

LogIdx == 1..Len(log)

Last(s) == s[Len(s)]

\* the request in slot p is answered in this step
Answered(p) == slot[p].pc # "idle" /\ slot'[p].pc = "idle"

\* a validate call that presented both credentials
ValidateCall(r) == r.op = "validate" /\ r.token # NoToken /\ r.dev # NoDevice

\* C1: a validate(token, d1) call for a token with a pending registration
\* and no account succeeds and binds the account to d1, and every later
\* validate(token, d2) call with another deviceId is refused with
\* device_mismatch (403).
C1_FirstBindsSecondMismatch ==
    \A i \in LogIdx :
        (ValidateCall(log[i]) /\ log[i].pre = "pending")
        => /\ log[i].status = 200
           /\ \E u \in users : u.token = log[i].token /\ u.deviceId = log[i].dev
           /\ \A j \in LogIdx :
                (/\ j > i /\ ValidateCall(log[j])
                 /\ log[j].token = log[i].token /\ log[j].dev # log[i].dev)
                => log[j].status = 403 /\ log[j].error = "device_mismatch"

\* C2: in every step, an account whose deviceId is set keeps that deviceId
\* (it is neither replaced by another value nor reset to null).
C2_DeviceIdNeverChanges ==
    [][\A u \in users : u.deviceId # NoDevice =>
          \E v \in users' : v.id = u.id /\ v.deviceId = u.deviceId]_vars

\* C3: among the requests answered with success, one token is only ever
\* accepted from one deviceId.
C3_OneDevicePerToken ==
    \A i, j \in LogIdx :
        (/\ log[i].status = 200 /\ log[j].status = 200
         /\ log[i].op # "register" /\ log[j].op # "register"
         /\ log[i].token = log[j].token)
        => log[i].dev = log[j].dev

\* C4: once validate was called for a token with a pending registration and
\* no account, exactly one account carries the token and the registration
\* is marked used; every later validate of the token finds the account.
C4_MaterializesOneAccount ==
    \A i \in LogIdx :
        (ValidateCall(log[i]) /\ log[i].pre = "pending")
        => /\ Cardinality(UsersByToken(log[i].token)) = 1
           /\ \A r \in RegistrationsByToken(log[i].token) : r.used
           /\ \A j \in LogIdx :
                (j > i /\ ValidateCall(log[j]) /\ log[j].token = log[i].token)
                => log[j].pre = "account"

\* no registration row and no mail exists for the address of response r
NothingIssued(r) ==
    /\ RegistrationsByEmail(NormalizedEmail(r.email)) = {}
    /\ \A m \in 1..Len(mails) : mails[m].to # NormalizedEmail(r.email)

\* C5 as stated: every register call for an email whose normalized form is
\* not whitelisted is answered not_whitelisted (403), and neither a
\* registration nor a mail exists for it.
C5_NotWhitelistedAlways403 ==
    \A i \in LogIdx :
        (log[i].op = "register" /\ WhitelistByEmail(NormalizedEmail(log[i].email)) = {})
        => /\ log[i].status = 403 /\ log[i].error = "not_whitelisted"
           /\ NothingIssued(log[i])

\* C5 as amended: a register call for an email that is not whitelisted is
\* answered not_whitelisted (403) when the email contains '@' and
\* invalid_email (400) when it does not; either way neither a registration
\* nor a mail exists for it.
C5_NotWhitelistedRejected ==
    \A i \in LogIdx :
        (log[i].op = "register" /\ WhitelistByEmail(NormalizedEmail(log[i].email)) = {})
        => /\ IF Includes(log[i].email, "@")
              THEN log[i].status = 403 /\ log[i].error = "not_whitelisted"
              ELSE log[i].status = 400 /\ log[i].error = "invalid_email"
           /\ NothingIssued(log[i])

C5_Witness ==
    \E i \in LogIdx :
        /\ log[i].op = "register" /\ log[i].email = EmailB
        /\ log[i].status = 403
        /\ Len(mails) > 0

\* C6 as stated: a register call for a whitelisted email that already has
\* a registration (used or not) never changes the registrations table, and
\* is answered success with resent = true after mailing exactly the token
\* stored for that email.
C6_SecondRegisterResends ==
    [][\A p \in Slots :
         (slot[p].op = "register" /\ slot[p].pre = "registered")
         => /\ registrations' = registrations
            /\ IF Answered(p)
               THEN /\ Last(log').status = 200 /\ Last(log').resent
                    /\ \E r \in RegistrationsByEmail(NormalizedEmail(slot[p].email)) :
                         mails' = Append(mails, [to |-> r.email, token |-> r.token])
               ELSE mails' = mails]_vars

\* C6, amended: a register call for a whitelisted email that already has a
\* registration (used or not) never changes the registrations table; when
\* the mail provider accepts the send it is answered success with
\* resent = true after mailing exactly the token stored for that email, and
\* when the provider refuses it is answered a server error and nothing is
\* mailed.
C6_SecondRegisterResendsOrFails ==
    [][\A p \in Slots :
         (slot[p].op = "register" /\ slot[p].pre = "registered")
         => /\ registrations' = registrations
            /\ IF Answered(p)
               THEN IF mails' # mails
                    THEN /\ Last(log').status = 200 /\ Last(log').resent
                         /\ \E r \in RegistrationsByEmail(NormalizedEmail(slot[p].email)) :
                              mails' = Append(mails, [to |-> r.email, token |-> r.token])
                    ELSE Last(log').status = 500
               ELSE mails' = mails]_vars

C6_Witness ==
    \E i \in LogIdx :
        /\ log[i].op = "register" /\ log[i].pre = "registered"
        /\ log[i].resent /\ log[i].email = EmailAVar
        /\ \E r \in RegistrationsByEmail(NormalizedEmail(log[i].email)) : r.used

\* C7: when the delete or an insert of a replace-all fails, the request is
\* answered with a server error and the records table is what it was when
\* the request arrived.
C7_FailedReplaceRestores ==
    [][\A p \in Slots :
         (slot[p].pc = "c_rollback" /\ Answered(p))
         => /\ Last(log').status = 500
            /\ coffees' = slot[p].before]_vars

C7_Witness ==
    \E i \in LogIdx :
        /\ log[i].op = "post_coffees" /\ log[i].status = 500
        /\ log[i].before # <<>> /\ Len(log[i].body) = 2
        /\ coffees = log[i].before

\* the records of account u, as payloads
RecordsOf(u) ==
    LET rows == GetUserCoffees(u.id)
    IN  [i \in 1..Len(rows) |-> JsonParse(rows[i].data)]

\* the replace-all requests of account u that got past authentication
Replacing(u) ==
    {i \in LogIdx : /\ log[i].op = "post_coffees" /\ log[i].token = u.token
                    /\ log[i].status \in {200, 500}}

\* C8: with no storage call failing and no request left in flight, every
\* replace-all was carried out whatever the other requests did (none was
\* answered an error), and the records of each account are exactly the set
\* supplied by one of its replace-all requests.
C8_ReplaceAllIndependent ==
    InFlight = {} =>
        \A u \in users :
            Replacing(u) # {}
            => /\ \A i \in Replacing(u) : log[i].status = 200
               /\ \E i \in Replacing(u) : RecordsOf(u) = log[i].body

\* C9: no two registration rows have the same normalized email.
C9_OneRegistrationPerEmail ==
    \A r1, r2 \in registrations :
        NormalizedEmail(r1.email) = NormalizedEmail(r2.email) => r1 = r2

\* two overlapping register calls for one address, differing in case and
\* whitespace: one row, the other call failed at the insert
C9_Witness ==
    /\ Cardinality(registrations) = 1
    /\ \E i, j \in LogIdx :
         /\ log[i].op = "register" /\ log[i].status = 500 /\ log[i].pre = "new"
         /\ log[j].op = "register" /\ log[j].status = 200 /\ ~log[j].resent
         /\ log[i].email # log[j].email
         /\ NormalizedEmail(log[i].email) = NormalizedEmail(log[j].email)

\* C10: no two accounts carry the same token.
C10_OneAccountPerToken ==
    \A u1, u2 \in users : u1.token = u2.token => u1 = u2

\* two overlapping validate calls for one pending token: one account, the
\* other call failed at the insert
C10_Witness ==
    \E i, j \in LogIdx :
        /\ ValidateCall(log[i]) /\ log[i].pre = "pending" /\ log[i].status = 500
        /\ ValidateCall(log[j]) /\ log[j].pre = "pending" /\ log[j].status = 200
        /\ log[i].token = log[j].token
        /\ Cardinality(UsersByToken(log[i].token)) = 1
\* a register call, by its response
RegisterCall(r) == r.op = "register"

\* C11: a first-time register whose mail send is refused is answered a
\* server error and the registration row it inserted stays; every later
\* register for the same email takes the resend path with that same token,
\* and reports resent = true when it reports success.
C11_MailFailureKeepsRow ==
    \A i \in LogIdx :
        (RegisterCall(log[i]) /\ log[i].at = "r_mail" /\ log[i].status # 200)
        => /\ log[i].status = 500
           /\ \E r \in RegistrationsByEmail(NormalizedEmail(log[i].email)) :
                r.token = log[i].cand
           /\ \A j \in LogIdx :
                (/\ j > i /\ RegisterCall(log[j])
                 /\ NormalizedEmail(log[j].email) = NormalizedEmail(log[i].email))
                => /\ log[j].at = "r_resend"
                   /\ log[j].cand = log[i].cand
                   /\ log[j].status = 200 => log[j].resent

C11_Witness ==
    \E i, j \in LogIdx :
        /\ i < j
        /\ RegisterCall(log[i]) /\ log[i].at = "r_mail" /\ log[i].status = 500
        /\ RegisterCall(log[j]) /\ log[j].email = EmailAVar /\ log[i].email = EmailA
        /\ log[j].status = 200 /\ log[j].resent
        /\ mails = <<[to |-> NormalizedEmail(EmailA), token |-> log[i].cand]>>

\* the tables of the store
tables == <<whitelist, registrations, users, coffees, tx>>

\* a call of one of the entry points that check credentials
GuardedCall(r) ==
    r.op \in {"validate", "server_validate", "get_coffees", "post_coffees"}

C13_UnknownTokenRejected ==
    /\ [](\A i \in LogIdx :
            (ValidateCall(log[i]) /\ TokenState(log[i].token) = "none")
            => log[i].status = 401 /\ log[i].error = "invalid_token")
    /\ [][\A p \in Slots :
            (/\ slot[p].op = "validate" /\ slot'[p] # slot[p]
             /\ TokenState(slot[p].token) = "none")
            => /\ tables' = tables
               /\ Answered(p) => /\ Last(log').status = 401
                                 /\ Last(log').error = "invalid_token"]_vars

C13_Witness ==
    /\ registrations # {}
    /\ \E i \in LogIdx :
         /\ ValidateCall(log[i]) /\ log[i].token = UnknownToken
         /\ log[i].status = 401 /\ log[i].at = "v_registration"

\* the token was validated successfully through routes/auth.js
Validated(token) ==
    \E i \in LogIdx :
        ValidateCall(log[i]) /\ log[i].token = token /\ log[i].status = 200

\* C14: a registration row is created unused, is never deleted and never
\* goes back from used to unused; its flag is set only by a validate call
\* of its token, right after that call created the account; and with no
\* request in flight a row is used exactly when its token has been
\* validated successfully.
C14_UsedFlagLifecycle ==
    /\ [](\A r \in registrations : r.used => UsersByToken(r.token) # {})
    /\ [](InFlight = {} => \A r \in registrations : r.used <=> Validated(r.token))
    /\ [][\A r \in registrations :
            \E r2 \in registrations' :
                /\ r2.email = r.email /\ r2.token = r.token
                /\ r.used => r2.used
                /\ (~r.used /\ r2.used)
                   => \E p \in Slots :
                        /\ slot[p].op = "validate" /\ slot[p].pc = "v_used"
                        /\ slot[p].token = r.token /\ slot'[p] # slot[p]]_vars
    /\ [][\A r2 \in registrations' :
            (\A r \in registrations : r.token # r2.token \/ r.email # r2.email)
            => ~r2.used]_vars

C14_Witness ==
    /\ InFlight = {}
    /\ \E i, j \in LogIdx :
         /\ i < j
         /\ ValidateCall(log[i]) /\ log[i].pre = "pending" /\ log[i].status = 200
         /\ RegisterCall(log[j]) /\ log[j].resent
         /\ \E r \in registrations : r.used /\ r.token = log[i].token
                                      /\ r.email = NormalizedEmail(log[j].email)

\* the alphabet the tokens are to be drawn from
Alphabet ==
    {"A","B","C","D","E","F","G","H","J","K","L","M","N","P","Q","R",
     "S","T","U","V","W","X","Y","Z","2","3","4","5","6","7","8","9"}

\* C15: whatever the six random bytes are, the token generateToken returns
\* is 'BREW-' followed by exactly six characters, each of them one of the 32
\* symbols of the alphabet, which has none of 0, O, 1, I.
C15_TokenFormat ==
    /\ Cardinality(Alphabet) = 32
    /\ Alphabet \cap {"0", "O", "1", "I"} = {}
    /\ \A p \in Slots :
         slot[p].pc = "t_done"
         => LET c == [i \in 1..6 |-> TokenSymbol(slot[p].bytes, i)]
            IN  /\ \A i \in 1..6 : c[i] \in Alphabet
                /\ slot[p].cand = "BREW-" \o c[1] \o c[2] \o c[3] \o c[4] \o c[5] \o c[6]
                /\ Len(slot[p].cand) = Len("BREW-") + 6

C15_Witness ==
    /\ slot[1].pc = "t_done"
    /\ slot[1].bytes = <<255, 255, 255, 33, 255, 255>>
    /\ slot[1].cand = "BREW-999B99"

Steps(p) == slot'[p] # slot[p]

\* C17: the collision loop of register generates at most ten candidates:
\* every turn either finds a free candidate and leaves for the insert, or
\* counts a collision and goes round again while fewer than ten are
\* counted; with the tenth collision it leaves for the insert with the
\* colliding candidate.  So the loop always ends.
C17_CollisionLoopTerminates ==
    /\ [](\A p \in Slots :
            /\ slot[p].att <= MaxAttempts
            /\ slot[p].pc = "r_generate" => slot[p].att < MaxAttempts)
    /\ [][\A p \in Slots :
            (slot[p].pc = "r_generate" /\ Steps(p))
            => IF RegistrationsByToken(slot'[p].cand) = {}
               THEN slot'[p].pc = "r_insert" /\ slot'[p].att = slot[p].att
               ELSE /\ slot'[p].att = slot[p].att + 1
                    /\ slot'[p].pc = IF slot'[p].att < MaxAttempts
                                     THEN "r_generate" ELSE "r_insert"]_vars
    /\ \A p \in Slots : (slot[p].pc = "r_generate") ~> (slot[p].pc = "r_insert")

C17_Witness ==
    \E p \in Slots :
        /\ slot[p].pc = "r_insert" /\ slot[p].att = MaxAttempts
        /\ RegistrationsByToken(slot[p].cand) # {}

\* C18: the collision check reserves nothing and the insert does not look
\* again: the turn of the loop that finds the candidate free writes
\* nothing, and the insert goes ahead with the candidate whatever has been
\* stored since; it adds the row when email and token are still free and
\* is answered a server error, nothing stored or mailed, when they are not.
C18_CheckThenInsertNotAtomic ==
    [][\A p \in Slots :
         Steps(p)
         => /\ slot[p].pc = "r_generate" => registrations' = registrations
            /\ slot[p].pc = "r_insert"
               => IF RegistrationInsertable(NormalizedEmail(slot[p].email), slot[p].cand)
                  THEN /\ slot'[p].pc = "r_mail"
                       /\ registrations' = registrations \cup
                            {[email |-> NormalizedEmail(slot[p].email),
                              token |-> slot[p].cand, used |-> FALSE]}
                  ELSE /\ Answered(p) /\ Last(log').status = 500
                       /\ registrations' = registrations /\ mails' = mails]_vars

\* two overlapping register calls for two whitelisted addresses stand
\* before their inserts with the same candidate, which passed both checks
C18_Witness ==
    /\ slot[1].pc = "r_insert" /\ slot[2].pc = "r_insert"
    /\ slot[1].cand = slot[2].cand
    /\ slot[1].att = 0 /\ slot[2].att = 0
    /\ NormalizedEmail(slot[1].email) # NormalizedEmail(slot[2].email)
    /\ \A p \in Slots : WhitelistByEmail(NormalizedEmail(slot[p].email)) # {}
    /\ RegistrationsByToken(slot[1].cand) = {}

\* the listed element carries the supplied record: every field of the
\* record with its value, and besides them at most the id and the savedAt
\* the listing adds
Carries(item, record) ==
    /\ \A f \in DOMAIN record : f \in DOMAIN item /\ item[f] = record[f]
    /\ DOMAIN item \subseteq DOMAIN record \cup {"id", "savedAt"}

\* the list holds exactly the supplied records, one element each, in some
\* order
ListsExactly(list, body) ==
    /\ Len(list) = Len(body)
    /\ \/ Len(body) = 0
       \/ \E f \in Permutations(1..Len(body)) :
            \A k \in 1..Len(body) : Carries(list[f[k]], body[k])

\* response j is a listing of the account after its replace-all i, with no
\* other replace-all of the account carried out in between
ListAfterReplace(i, j) ==
    /\ i < j
    /\ log[i].op = "post_coffees" /\ log[i].status = 200
    /\ log[j].op = "get_coffees" /\ log[j].status = 200
    /\ log[j].token = log[i].token
    /\ \A k \in LogIdx :
         (i < k /\ k < j /\ log[k].op = "post_coffees" /\ log[k].token = log[i].token)
         => log[k].status # 200

\* C19: a listing that follows a successful replace-all of the account
\* returns exactly the supplied records, one element per record, none of
\* the earlier ones; after a replace-all with no records it is empty.
C19_ListReturnsReplaced ==
    \A i, j \in LogIdx :
        ListAfterReplace(i, j) => ListsExactly(log[j].coffees, log[i].body)

\* C20: the saved count of a successful replace-all is the number of
\* inserts the call made, which is the number of records the account then
\* has; when the body has no coffees, or an empty list, the count is 0 and
\* the account has no records left.
C20_SavedCountIsInserted ==
    [][\A p \in Slots :
         (slot[p].op = "post_coffees" /\ Answered(p) /\ Last(log').status = 200)
         => /\ Last(log').saved = slot[p].k
            /\ Last(log').saved = Len(SelectSeq(coffees', LAMBDA row : row.user = slot[p].user.id))
            /\ (~slot[p].given \/ slot[p].body = <<>>) => Last(log').saved = 0]_vars

C20_Witness ==
    \E i, j \in LogIdx :
        /\ i < j /\ log[i].token = log[j].token
        /\ log[i].op = "post_coffees" /\ log[i].status = 200 /\ log[i].saved = 2
        /\ log[j].op = "post_coffees" /\ log[j].status = 200 /\ ~log[j].given
        /\ log[j].saved = 0 /\ log[j].before # <<>>
        /\ coffees = <<>>

\* the positions of the two coffee handlers, after next()
HandlerPcs == {"g_login", "g_select", "c_begin", "c_delete", "c_insert",
               "c_commit", "c_rollback"}

\* the positions of authenticateUser, request arrival included
AuthPcs == {"idle", "a_user", "a_bind"}

\* slot p takes this step
Acts(p) == slot'[p] # slot[p]

\* C21: the coffee record store is read or written only by a request that
\* authenticateUser has let through: when a request enters a coffee handler
\* its token resolves to an account that is bound to the supplied device,
\* by an earlier binding or by this request; only a request standing in a
\* handler changes the records or the transaction or answers with a
\* listing; and a step of authenticateUser, the 400, 401 and 403 answers
\* among them, leaves the records and the transaction as they are.
C21_StoreBehindAuthentication ==
    /\ [][\A p \in Slots :
            (slot[p].pc \notin HandlerPcs /\ slot'[p].pc \in HandlerPcs)
            => \E u \in users' :
                 /\ u.token = slot[p].token
                 /\ u.deviceId = slot[p].dev
                 /\ slot[p].dev # NoDevice
                 /\ slot'[p].user.id = u.id]_vars
    /\ [][\A p \in Slots :
            (Acts(p) /\ slot[p].pc \in AuthPcs)
            => UNCHANGED <<coffees, tx>>]_vars
    /\ [][(coffees' # coffees \/ tx' # tx)
            => \E p \in Slots : Acts(p) /\ slot[p].pc \in HandlerPcs]_vars
    /\ [](\A i \in LogIdx :
            /\ log[i].status \in {400, 401, 403} => log[i].at \in AuthPcs
            /\ (log[i].op \in {"get_coffees", "post_coffees"} /\ log[i].status = 200)
               => log[i].at \in HandlerPcs)

\* a request with the token of an account bound to another device was
\* refused while that account had records stored
C21_Witness ==
    \E i \in LogIdx :
        /\ log[i].op = "post_coffees"
        /\ log[i].status = 403
        /\ log[i].body # <<>>
        /\ log[i].before # <<>>
        /\ coffees = log[i].before

\* the positions of the admin handlers behind adminAuth
AdminPcs == {"w_list", "w_upsert", "w_existing", "w_insert", "w_update", "w_delete"}

\* the header is present and equals a configured, non-empty secret
HoldsSecret(pw) ==
    /\ pw # Undefined
    /\ env.adminPassword \notin {Undefined, ""}
    /\ pw = env.adminPassword

\* C22: an admin request whose x-admin-password header is missing or
\* differs from the configured secret, or that arrives while no secret or
\* an empty one is configured, is answered 401 Unauthorized at arrival,
\* before any storage call; only a request that holds the secret stands in
\* a handler, and only such a request changes the whitelist.
C22_AdminGate ==
    /\ [](\A i \in LogIdx :
            (log[i].op \in AdminOps /\ ~HoldsSecret(log[i].pw))
            => /\ log[i].status = 401
               /\ log[i].error = "Unauthorized"
               /\ log[i].at = "idle")
    /\ [](\A p \in Slots :
            slot[p].pc \in AdminPcs => HoldsSecret(slot[p].pw))
    /\ [][whitelist' # whitelist
            => \E p \in Slots :
                 Acts(p) /\ slot[p].pc \in AdminPcs /\ HoldsSecret(slot[p].pw)]_vars

\* with an empty secret configured, a request with an empty header and a
\* request carrying a user token were both refused
C22_Witness ==
    /\ env.adminPassword = ""
    /\ \E i, j \in LogIdx :
         /\ log[i].op = "admin_remove" /\ log[i].pw = "" /\ log[i].status = 401
         /\ log[j].op = "admin_list" /\ log[j].pw = LegacyToken1 /\ log[j].status = 401
    /\ whitelist = InitialWhitelist

\* an add that passed adminAuth and the email check
AddCall(r) == r.op = "admin_add" /\ r.status # 401 /\ ValidEmail(r.email)

\* C23: an added entry carries the normalized email; an add that finds an
\* entry with the same normalized email is answered 409 and leaves the
\* whitelist as it is; no two entries share an email.
C23_AddConflictKeepsUnique ==
    /\ \A i \in LogIdx :
         AddCall(log[i]) =>
           IF \E w \in log[i].wbefore : w.email = NormalizedEmail(log[i].email)
           THEN log[i].status = 409
           ELSE /\ log[i].status = 200
                /\ log[i].newId \notin {w.id : w \in log[i].wbefore}
    /\ \A w1, w2 \in whitelist : w1.email = w2.email => w1 = w2
    /\ \A w \in whitelist : w.email = NormalizedEmail(w.email)

\* the entry with the given id, in a whitelist
EntryById(rows, id) == {w \in rows : w.id = id}

\* C24: a patch whose body has none of name, website, note is answered 400
\* at arrival, before any storage call; the UPDATE of a patch leaves
\* registrations, accounts and records alone, keeps every entry's id and
\* email, leaves every other entry as it is, and in the entry with the
\* given id sets the supplied recognized fields to the supplied values and
\* keeps the others.
C24_PatchFrame ==
    /\ [](\A i \in LogIdx :
            (log[i].op = "admin_patch" /\ log[i].status # 401
               /\ Updates(log[i].fields) = {})
            => /\ log[i].status = 400
               /\ log[i].at = "idle")
    /\ [][\A p \in Slots :
            (Acts(p) /\ slot[p].op = "admin_patch")
            => /\ UNCHANGED <<registrations, users, coffees, tx>>
               /\ {w.id : w \in whitelist'} = {w.id : w \in whitelist}
               /\ \A w \in whitelist :
                    \E n \in EntryById(whitelist', w.id) :
                      /\ EntryById(whitelist', w.id) = {n}
                      /\ n.email = w.email
                      /\ (w.id # slot[p].id \/ slot[p].pc # "w_update") => n = w
                      /\ \A key \in Allowed :
                           n[key] = IF /\ w.id = slot[p].id
                                       /\ slot[p].pc = "w_update"
                                       /\ slot[p].fields[key] # Undefined
                                    THEN slot[p].fields[key]
                                    ELSE w[key]]_vars

\* a patch with a name and an email in its body was answered 200: the
\* entry has the name, and the email it had
C24_Witness ==
    \E i \in LogIdx :
        /\ log[i].op = "admin_patch" /\ log[i].status = 200 /\ log[i].id = 1
        /\ log[i].fields.name = "Ann" /\ log[i].fields.email = EmailB
        /\ \E w \in whitelist :
             w.id = 1 /\ w.name = "Ann" /\ w.email = NormalizedEmail(EmailA)
        /\ \E w \in log[i].wbefore : w.id = 1 /\ w.name = ""

\* the status the join is meant to derive for an entry
DerivedStatus(w) ==
    IF RegistrationsByEmail(w.email) = {} THEN "invited"
    ELSE IF \E r \in RegistrationsByEmail(w.email) : UsersByToken(r.token) # {}
         THEN "registered"
         ELSE "sent"

\* C25: the listing carries one row per whitelist entry, and the row's
\* status is 'registered' when an account exists for the token of the
\* entry's registration, 'sent' when the email has a registration whose
\* token has no account, 'invited' when the email has no registration.
C25_ListStatus ==
    [][\A p \in Slots :
         (Acts(p) /\ slot[p].pc = "w_list")
         => LET entries == Last(log').entries
            IN  /\ Last(log').status = 200
                /\ {e.id : e \in entries} = {w.id : w \in whitelist}
                /\ \A w \in whitelist :
                     \E e \in entries :
                       /\ {x \in entries : x.id = w.id} = {e}
                       /\ e.email = w.email
                       /\ e.status = DerivedStatus(w)]_vars

\* one listing showed an entry as sent, a later one showed it as
\* registered next to an entry that is invited
C25_Witness ==
    \E i, j \in LogIdx :
        /\ i < j
        /\ log[i].op = "admin_list" /\ log[j].op = "admin_list"
        /\ \E e \in log[i].entries :
             e.email = NormalizedEmail(EmailA) /\ e.status = "sent"
        /\ \E e \in log[j].entries :
             e.email = NormalizedEmail(EmailA) /\ e.status = "registered"
        /\ \E e \in log[j].entries :
             e.email = NormalizedEmail(EmailADot) /\ e.status = "invited"

\* a header or key that is there with a non-empty value
Present(v) == v # Absent /\ v # <<>>

\* the Authorization header is 'Bearer ' followed by t
IsBearer(header, t) == header = BearerPrefix \o t

\* C26: with an Authorization header 'Bearer <t>' the token is <t>,
\* whatever body and query carry; without one it is the body's token when
\* the body has one, else the query's; the deviceId is the X-Device-ID
\* header when there is one, else the body's, else the query's.
C26_HeadersPreferred ==
    \A p \in Slots :
        slot[p].pc = "x_done" =>
          LET req == slot[p].arg
              out == slot[p].ret
          IN  /\ IF \E n \in 0..Len(req.authorization) :
                       /\ req.authorization # Absent
                       /\ IsBearer(req.authorization,
                                   SubSeq(req.authorization,
                                          Len(req.authorization) - n + 1,
                                          Len(req.authorization)))
                 THEN IsBearer(req.authorization, out.token)
                 ELSE out.token = IF Present(req.bodyToken) THEN req.bodyToken
                                  ELSE req.queryToken
              /\ out.deviceId =
                    IF Present(req.xDeviceId) THEN req.xDeviceId
                    ELSE IF Present(req.bodyDeviceId) THEN req.bodyDeviceId
                    ELSE req.queryDeviceId

\* a request with a Bearer header and other tokens in body and query, and
\* with a deviceId in the body only, was read
C26_Witness ==
    /\ slot[1].pc = "x_done"
    /\ slot[1].arg.authorization = BearerPrefix \o TokenT1
    /\ slot[1].arg.bodyToken = TokenT2
    /\ slot[1].arg.queryToken = TokenT3
    /\ slot[1].arg.xDeviceId = Absent
    /\ slot[1].arg.bodyDeviceId = <<"d","2">>
    /\ slot[1].ret = [token |-> TokenT1, deviceId |-> <<"d","2">>]

\* the operations C27 names: register, validate, coffee list and save
FaultOps == {"register", "validate", "get_coffees", "post_coffees"}

\* C27: a storage or mail failure caught while handling register,
\* validate, a coffee listing or a coffee save is answered 500 with the
\* error 'Server error', which is not the message of the failure, and with
\* no payload; a failure raised inside the save's transaction is answered
\* so by the next step of the request.
C27_FailuresAreOpaque ==
    /\ [](\A i \in LogIdx :
            (log[i].op \in FaultOps /\ log[i].thrown # "")
            => /\ log[i].status = 500
               /\ log[i].error = "Server error"
               /\ log[i].error # log[i].thrown
               /\ log[i].resent = FALSE
               /\ log[i].coffees = <<>>
               /\ log[i].saved = 0)
    /\ [](\A p \in Slots :
            slot[p].thrown # "" => slot[p].pc = "c_rollback")
    /\ [][\A p \in Slots :
            (Acts(p) /\ slot[p].pc = "c_rollback")
            => /\ Answered(p)
               /\ Last(log').status = 500
               /\ Last(log').thrown = slot[p].thrown]_vars
    /\ [](\A i \in LogIdx :
            (log[i].op \in FaultOps /\ log[i].status = 500)
            => log[i].thrown # "")

\* a mail failure, a failed storage call of validate and a failed insert
\* of a coffee save were each answered
C27_Witness ==
    \E i, j, k \in LogIdx :
        /\ log[i].op = "register" /\ log[i].thrown = MailError
        /\ log[j].op = "validate" /\ log[j].thrown = StorageError
        /\ log[k].op = "post_coffees" /\ log[k].thrown = StorageError
        /\ log[k].at = "c_rollback"

ValidateOps == {"validate", "server_validate"}

\* the logins recorded for the account of a token, in a users table
LoginsOf(rows, token) == {u.logins : u \in {x \in rows : x.token = token}}

\* C28: the step that answers a validate call with success records one
\* login on the account of the token and changes nothing else in the
\* accounts; no other step of a validate call records a login, so a call
\* that is refused for missing credentials, an invalid token or a device
\* mismatch has recorded none; and a device mismatch is answered on the
\* first read of the account, by a call that has written nothing to the
\* accounts.
C28_LastLoginOnSuccessOnly ==
    /\ [][\A p \in Slots :
            (Acts(p) /\ slot[p].op \in ValidateOps /\ Answered(p)
               /\ Last(log').status = 200)
            => /\ \E u \in users :
                    /\ u.token = slot[p].token
                    /\ users' = (users \ {u}) \cup {[u EXCEPT !.logins = u.logins + 1]}]_vars
    /\ [][\A p \in Slots :
            (Acts(p) /\ slot[p].op \in ValidateOps
               /\ \E u \in users : LoginsOf(users', u.token) # {u.logins})
            => /\ Answered(p)
               /\ Last(log').status = 200]_vars
    /\ [][\A p \in Slots :
            (Acts(p) /\ (slot[p].pc \in {"v_user", "sv_user"}
                           \/ (slot[p].pc = "idle" /\ slot'[p].op \in ValidateOps)))
            => users' = users]_vars
    /\ [](\A i \in LogIdx :
            (log[i].op \in ValidateOps /\ log[i].status = 403)
            => log[i].at \in {"v_user", "sv_user"})

\* a validate call succeeded and a later one from another device was
\* refused: the account carries the one login
C28_Witness ==
    \E i, j \in LogIdx :
        /\ i < j
        /\ log[i].op = "validate" /\ log[i].status = 200
        /\ log[j].op = "validate" /\ log[j].status = 403
        /\ log[j].token = log[i].token /\ log[j].dev # log[i].dev
        /\ \E u \in users :
             u.token = log[i].token /\ u.logins = 1 /\ u.deviceId = log[i].dev

\* the response body has a content item of type 'text' whose text is a
\* string
HasTextItem(responseBody) ==
    /\ responseBody.given
    /\ \E i \in 1..Len(responseBody.content) :
         /\ responseBody.content[i].type = "text"
         /\ responseBody.content[i].text # Absent

\* C29: the call throws 'No text content returned from analysis provider'
\* exactly when the response body has no content item of type 'text' with
\* a string text: content missing, empty, or of other items only.
C29_NoTextThrows ==
    \A p \in Slots :
        slot[p].pc = "j_done" =>
          (slot[p].ret.thrown = NoTextMessage <=> ~HasTextItem(slot[p].arg))

\* a body whose items are a tool call and a text item without a string
\* made the call throw the error
C29_Witness ==
    /\ slot[1].pc = "j_done"
    /\ slot[1].arg.content = <<[type |-> "tool_use", text |-> <<"{", "}">>],
                               [type |-> "text", text |-> Absent]>>
    /\ slot[1].ret = Throws(NoTextMessage)

\* the combined text of a body, and the places of its fences
CombinedText(responseBody) == Join(TextSegments(responseBody))

FenceIndices(text) == {i \in 1..Len(text) : text[i] = Fence}

\* what stands inside the first fenced block of a text that has one: the
\* lexemes between its first two fences
InsideFirstBlock(text) ==
    LET open  == CHOOSE i \in FenceIndices(text) :
                     \A j \in FenceIndices(text) : i <= j
        close == CHOOSE i \in FenceIndices(text) \ {open} :
                     \A j \in FenceIndices(text) \ {open} : i <= j
    IN  SubSeq(text, open + 1, close - 1)

\* where the object is looked for: inside the first fenced block when the
\* text has one, in the whole combined text otherwise
SearchedText(responseBody) ==
    LET text == CombinedText(responseBody)
    IN  IF Cardinality(FenceIndices(text)) >= 2 THEN InsideFirstBlock(text)
        ELSE text

\* the object-like block of a text: its first '{' up to its last '}'
HasObjectBlock(text) ==
    \E i, j \in 1..Len(text) : i < j /\ text[i] = "{" /\ text[j] = "}"

ObjectBlock(text) ==
    LET opens  == {i \in 1..Len(text) : text[i] = "{"}
        closes == {i \in 1..Len(text) : text[i] = "}"}
        first  == CHOOSE i \in opens : \A j \in opens : i <= j
        last   == CHOOSE i \in closes : \A j \in closes : j <= i
    IN  SubSeq(text, first, last)

\* C30: on a body with a text item the call gives what parsing the
\* object-like block gives, the block being the first '{' to the last '}'
\* inside the first fenced block when the combined text has a fenced
\* block and of the combined text otherwise; without such a block it
\* throws 'Could not parse coffee data'.
C30_ObjectFromFirstFencedBlock ==
    \A p \in Slots :
        (slot[p].pc = "j_done" /\ HasTextItem(slot[p].arg)) =>
          LET searched == SearchedText(slot[p].arg)
          IN  slot[p].ret = IF HasObjectBlock(searched)
                            THEN JsonParseText(ObjectBlock(searched))
                            ELSE Throws(ParseMessage)

\* prose, a fenced empty object, and a closing brace after the block: the
\* object of the block is returned
C30_Witness ==
    /\ slot[1].pc = "j_done"
    /\ slot[1].arg = Body(<<TextItem(<<"a", Fence, "{", "}", Fence, "}">>)>>)
    /\ slot[1].ret = Returns(<<"{", "}">>)

\* a field of the coffee data is supplied and not empty
Supplied(coffeeData, key) ==
    /\ coffeeData.given
    /\ key \in DOMAIN coffeeData.fields
    /\ coffeeData.fields[key] \notin {Undefined, Null, ""}

\* C31: buildCoffeeDefaults keeps every supplied non-empty field among
\* name, origin, process, cultivar, altitude, roaster, tastingNotes,
\* replaces each missing or empty one by 'Unknown', 'Unknown', 'washed',
\* 'Unknown', '1500', 'Unknown', 'No notes' respectively, always sets a
\* non-empty addedDate, and the result has exactly these eight fields.
C31_DefaultsFill ==
    \A p \in Slots :
        slot[p].pc = "b_done" =>
          /\ DOMAIN slot[p].ret =
               {"name", "origin", "process", "cultivar", "altitude", "roaster",
                "tastingNotes", "addedDate"}
          /\ slot[p].ret.addedDate \notin {Undefined, Null, ""}
          /\ \A key \in {"name", "origin", "cultivar", "roaster"} :
               slot[p].ret[key] = IF Supplied(slot[p].arg, key)
                                  THEN slot[p].arg.fields[key] ELSE "Unknown"
          /\ slot[p].ret.process = IF Supplied(slot[p].arg, "process")
                                   THEN slot[p].arg.fields.process ELSE "washed"
          /\ slot[p].ret.altitude = IF Supplied(slot[p].arg, "altitude")
                                    THEN slot[p].arg.fields.altitude ELSE "1500"
          /\ slot[p].ret.tastingNotes = IF Supplied(slot[p].arg, "tastingNotes")
                                        THEN slot[p].arg.fields.tastingNotes
                                        ELSE "No notes"

\* a name was supplied, the origin is empty, the process is null and the
\* rest is missing: the name is kept and the others are the defaults
C31_Witness ==
    /\ slot[1].pc = "b_done"
    /\ slot[1].arg.given
    /\ DOMAIN slot[1].arg.fields = DOMAIN DefaultOf
    /\ slot[1].arg.fields.name = "Kenya"
    /\ slot[1].arg.fields.origin = ""
    /\ slot[1].arg.fields.process = Null
    /\ slot[1].arg.fields.altitude = Undefined
    /\ slot[1].ret.name = "Kenya"
    /\ slot[1].ret.origin = "Unknown"
    /\ slot[1].ret.process = "washed"
    /\ slot[1].ret.altitude = "1500"

\* C32: with no request in flight, also after a storage step of validate
\* has failed between its writes, an account exists for the token of a
\* registration only if that registration is marked used.
C32_AccountOnlyIfUsed ==
    InFlight = {} =>
      \A r \in registrations : UsersByToken(r.token) # {} => r.used

\* C33: a successful validate returns the account's stored profile: the
\* deviceId returned is the one supplied and the one the account is bound
\* to, and the waterHardness returned is the one stored, for every stored
\* value of 0..50, and null only when none is stored.
C33_ProfileIsStored ==
    [][\A p \in Slots :
         (/\ slot[p].op = "validate" /\ slot[p].pc = "v_login"
          /\ slot'[p].pc = "idle") =>
           \E u \in users' :
               /\ u.token = slot[p].token
               /\ Last(log').profile.deviceId = slot[p].dev
               /\ Last(log').profile.deviceId = u.deviceId
               /\ Last(log').profile.waterHardness = u.waterHardness]_vars

\* validate(token, deviceId) would succeed on the store as it is: the
\* account of the token is unbound or bound to this device, or there is
\* no account and the token has a registration
ValidateWouldSucceed(token, deviceId) ==
    /\ token # NoToken /\ deviceId # NoDevice
    /\ LET user == GetUserByToken(token)
       IN  IF user = NoUser THEN RegistrationsByToken(token) # {}
           ELSE DeviceDecision(user, deviceId) # "mismatch"

\* C34: authenticateUser admits a request exactly when validate of the
\* same token and deviceId would succeed on the same store, also for a
\* token that so far has a registration only.
C34_MiddlewareAgreesWithValidate ==
    [][\A p \in Slots :
         (slot[p].pc = "a_user" /\ slot'[p] # slot[p]) =>
           (slot'[p].pc # "idle"
              <=> ValidateWouldSucceed(slot[p].token, slot[p].dev))]_vars

\* the status the listing derives for a whitelist entry on the store as
\* it is, and the place of a status on the way invited, sent, registered
StatusOf(w) == (CHOOSE e \in ListEntries : e.id = w.id).status

StatusRank(status) ==
    IF status = "invited" THEN 0 ELSE IF status = "sent" THEN 1 ELSE 2

\* C35: under register and validate calls the derived status of a
\* whitelist entry never moves back on the way invited, sent, registered,
\* and it is 'registered' once a validate of the entry's token has
\* succeeded.
C35_StatusMovesForward ==
    /\ [][\A w \in whitelist :
            w \in whitelist' => StatusRank(StatusOf(w)') >= StatusRank(StatusOf(w))]_vars
    /\ [](\A w \in whitelist :
            \A r \in RegistrationsByEmail(w.email) :
                Validated(r.token) => StatusOf(w) = "registered")

\* the token of one entry was validated and the entry is registered, while
\* the other entry is still invited
C35_Witness ==
    \E w1, w2 \in whitelist :
        /\ \E r \in RegistrationsByEmail(w1.email) : Validated(r.token)
        /\ StatusOf(w1) = "registered"
        /\ StatusOf(w2) = "invited"

\* the stored rows an account owns
RowsOf(id) == SelectSeq(coffees, LAMBDA row : row.user = id)

\* C36: no step of a list or replace-all request of one account changes
\* the rows owned by another account, a listing carries the rows of its own
\* account only, and the owner of every stored row is an existing account.
C36_AccountIsolation ==
    /\ [][\A p \in Slots :
            (slot[p].pc \in HandlerPcs /\ slot'[p] # slot[p]) =>
              /\ \A u \in users :
                   u.id # slot[p].user.id => RowsOf(u.id)' = RowsOf(u.id)
              /\ slot[p].pc = "g_select" =>
                   Last(log').coffees = ParsedCoffees(RowsOf(slot[p].user.id))]_vars
    /\ [](\A i \in 1..Len(coffees) : \E u \in users : u.id = coffees[i].user)

\* C37: usernames are unique across the accounts, and a validate of a
\* token that has a registration and no account succeeds and creates the
\* account, whatever the email's local part and the time of the call.
C37_UsernamesUniqueFirstValidateSucceeds ==
    /\ \A u1, u2 \in users : u1.username = u2.username => u1 = u2
    /\ \A i \in LogIdx :
         (ValidateCall(log[i]) /\ log[i].pre = "pending") =>
           /\ log[i].status = 200
           /\ UsersByToken(log[i].token) # {}

\* the requests for analysis among the responses
AnalyzeCall(r) == r.op \in {"analyze", "server_analyze"}

\* C38: a request for analysis sends nothing to the provider unless it
\* was authenticated and carries imageData, sends at most one request, and
\* a failure of the provider is answered without success: with 429 when
\* the provider answered 429, otherwise with a 5xx status.
C38_ProviderCalledOnceFailuresReported ==
    \A i \in LogIdx :
        AnalyzeCall(log[i]) =>
          /\ log[i].calls <= 1
          /\ log[i].calls > 0 =>
               /\ log[i].at = "z_response"
               /\ log[i].arg \notin {Undefined, ""}
          /\ log[i].provider \in ProviderOutcomes \ {ProviderOk} =>
               /\ log[i].error # ""
               /\ IF log[i].provider = ProviderLimited
                  THEN log[i].status = 429
                  ELSE log[i].status \in 500..599
====
